---- MODULE Spec2Model ----
(***************************************************************************)
(* Model of the Legato sensor framework (sensorFw/sensorFw.c): the pool of *)
(* sensor handlers, registration, typed sample dispatch, the periodic /    *)
(* read-once resources in the Data Hub and the "<path>/config" bridge.     *)
(*                                                                         *)
(* The Data Hub (io_ API), the periodic sensor component (psensor_ API),   *)
(* the memory pool (le_mem_ API), the JSON library (json_ API) and the     *)
(* plugins' callbacks are the environment: their answers are chosen        *)
(* nondeterministically among the results their interfaces allow.          *)
(***************************************************************************)
EXTENDS Integers, Sequences, FiniteSets, TLC

VARIABLES
    pool,                   \* SensorHandlerPool: the blocks in use, in allocation order
    RegisteredSensorCount,  \* static int RegisteredSensorCount
    hubRes,                 \* Data Hub: path -> resource created there
    hubVal,                 \* Data Hub: path -> last value pushed there
    psensors,               \* periodicSensor component: the sensors created, by reference
    pushHandlers,           \* Data Hub: JSON push handlers installed (path, handler context)
    aborted,                \* the process was terminated by LE_ASSERT / LE_FATAL
    call,                   \* history: the last operation run, its inputs, result and events
    running,                \* thread -> the handler whose sample callback it is executing
    iioAttrs,               \* IIO plugin: channel -> the value of its adjustable attribute
    dmIndex                 \* DM plugin: i of COMPONENT_INIT's loop, the rows gone through

vars ==
    <<pool, RegisteredSensorCount, hubRes, hubVal, psensors, pushHandlers, aborted, call,
      running, iioAttrs, dmIndex>>

----------------------------------------------------------------------------
(* le_result_t *)
LE_OK == "LE_OK"
LE_FAULT == "LE_FAULT"
LE_DUPLICATE == "LE_DUPLICATE"
LE_NOT_FOUND == "LE_NOT_FOUND"
LE_OVERFLOW == "LE_OVERFLOW"
LE_FORMAT_ERROR == "LE_FORMAT_ERROR"
LE_NO_MEMORY == "LE_NO_MEMORY"

(* Program constants *)
DEFAULT_SAMPLING_PERIOD_SEC == 60
MAX_RESOURCE_NAME_LEN == 20
MAX_RES_STRING_LEN == 1024
IO_MAX_RESOURCE_PATH_LEN == 79
IO_MAX_UNITS_NAME_LEN == 23
EXTRACTED_DATA_SIZE == 128
SIZEOF_BOOL == 1
SIZEOF_DOUBLE == 8

(* The capacity of the static pool.  The program's value is 100 or 1000;  *)
(* the model scales it down so that a full pool is reached.               *)
SENSOR_HANDLER_POOL_SIZE == 1

(* Registration is followed up to one block beyond the static capacity.   *)
MaxBlocks == SENSOR_HANDLER_POOL_SIZE + 1

(* NULL as a function pointer or a plugin context, and NULL as a pointer to *)
(* a sensor handler or a periodic sensor reference (these are block and    *)
(* sensor numbers, counted from 1).                                        *)
NULL == "NULL"
NULL_REF == 0
Uninit == "uninit"

(* sensorfwDataType_t (sensorFw.h), its enumerators without their prefix,  *)
(* and a value outside the enumeration                                     *)
CB_NUMERIC == "CB_NUMERIC"
CB_STRING == "CB_STRING"
CB_BOOLEAN == "CB_BOOLEAN"
CB_JSON == "CB_JSON"
CB_OUT_OF_RANGE == "CB_OUT_OF_RANGE"

sensorfwDataType_t == {CB_NUMERIC, CB_STRING, CB_BOOLEAN, CB_JSON}

(* io_DataType_t of the Data Hub *)
IO_DATA_TYPE_BOOLEAN == "IO_DATA_TYPE_BOOLEAN"
IO_DATA_TYPE_NUMERIC == "IO_DATA_TYPE_NUMERIC"
IO_DATA_TYPE_STRING == "IO_DATA_TYPE_STRING"
IO_DATA_TYPE_JSON == "IO_DATA_TYPE_JSON"

----------------------------------------------------------------------------
(* Typed values: what a callback writes and what a push carries.  A numeric *)
(* value is a C double; n holds its (integral) magnitude.                   *)
BoolV(x) == [kind |-> "Boolean", b |-> x, n |-> 0, s |-> ""]
NumV(x) == [kind |-> "Numeric", b |-> FALSE, n |-> x, s |-> ""]
StrV(x) == [kind |-> "String", b |-> FALSE, n |-> 0, s |-> x]
JsonV(x) == [kind |-> "Json", b |-> FALSE, n |-> 0, s |-> x]
NoValue == [kind |-> "none", b |-> FALSE, n |-> 0, s |-> ""]

----------------------------------------------------------------------------
(* JSON descriptor documents.  A document is well formed or not, and each   *)
(* member is absent or a value with a JSON type and its text.               *)
Absent == [type |-> "absent", text |-> ""]
JString(s) == [type |-> "string", text |-> s]
JBoolean(x) == [type |-> "boolean", text |-> IF x THEN "true" ELSE "false"]
JNumber(s) == [type |-> "number", text |-> s]

Descriptor(n, p, r, u) ==
    [wellFormed |-> TRUE, name |-> n, path |-> p, readOnce |-> r, unit |-> u]

(* json_Extract(buf, sizeof(buf), json, member, &type): the member's text, *)
(* whatever its JSON type; a failure when the document is malformed, the   *)
(* member is missing or its text does not fit the 128-byte buffer.         *)
json_Extract(doc, member) ==
    IF ~doc.wellFormed THEN [result |-> LE_FORMAT_ERROR, data |-> "", type |-> "absent"]
    ELSE IF doc[member].type = "absent"
    THEN [result |-> LE_NOT_FOUND, data |-> "", type |-> "absent"]
    ELSE IF Len(doc[member].text) >= EXTRACTED_DATA_SIZE
    THEN [result |-> LE_OVERFLOW, data |-> "", type |-> doc[member].type]
    ELSE [result |-> LE_OK, data |-> doc[member].text, type |-> doc[member].type]

(* json_ConvertToBoolean: true exactly for the text "true" *)
json_ConvertToBoolean(text) == text = "true"

(* le_utf8_Copy(dest, src, destSize, NULL): fails when src and its          *)
(* terminator do not fit destSize bytes.                                    *)
le_utf8_Copy(src, destSize) ==
    IF Len(src) < destSize THEN LE_OK ELSE LE_OVERFLOW

(* The sensorInfo_t fields of a block that nothing has written yet. *)
UninitInfo ==
    [sensorId |-> -1, name |-> Uninit, path |-> Uninit, isReadOnce |-> FALSE,
     unit |-> Uninit, type |-> Uninit, sensorRef |-> -1]

(* Variant of ParseUnit that accepts a descriptor without a unit, the way *)
(* a missing readOnce is accepted.                                         *)
ParseUnit_optional(doc, info) ==
    LET x == json_Extract(doc, "unit")
    IN  IF x.result # LE_OK THEN [result |-> LE_OK, info |-> [info EXCEPT !.unit = ""]]
        ELSE IF le_utf8_Copy(x.data, IO_MAX_UNITS_NAME_LEN) # LE_OK
        THEN [result |-> LE_FAULT, info |-> info]
        ELSE [result |-> LE_OK, info |-> [info EXCEPT !.unit = x.data]]

(* ParseSensorInfo, lines 452-469: read the unit of measurement *)
ParseUnit(doc, info) ==
    LET x == json_Extract(doc, "unit")
    IN  IF x.result # LE_OK THEN [result |-> LE_FAULT, info |-> info]
        ELSE IF le_utf8_Copy(x.data, IO_MAX_UNITS_NAME_LEN) # LE_OK
        THEN [result |-> LE_FAULT, info |-> info]
        ELSE [result |-> LE_OK, info |-> [info EXCEPT !.unit = x.data]]

(* Variant of ParseReadOnce that takes a sensor without readOnce as a      *)
(* read-once one.                                                          *)
ParseReadOnce_defaultsTrue(doc, info) ==
    LET x == json_Extract(doc, "readOnce")
    IN  IF x.result = LE_OK
        THEN [info EXCEPT !.isReadOnce = json_ConvertToBoolean(x.data)]
        ELSE [info EXCEPT !.isReadOnce = TRUE]

(* ParseSensorInfo, lines 435-450: readOnce is optional, default false *)
ParseReadOnce(doc, info) ==
    LET x == json_Extract(doc, "readOnce")
    IN  IF x.result = LE_OK
        THEN [info EXCEPT !.isReadOnce = json_ConvertToBoolean(x.data)]
        ELSE [info EXCEPT !.isReadOnce = FALSE]

(* ParseSensorInfo, lines 414-433: read the path *)
ParsePath(doc, info) ==
    LET x == json_Extract(doc, "path")
    IN  IF x.result # LE_OK THEN [result |-> LE_FAULT, info |-> info]
        ELSE IF le_utf8_Copy(x.data, IO_MAX_RESOURCE_PATH_LEN) # LE_OK
        THEN [result |-> LE_FAULT, info |-> info]
        ELSE [result |-> LE_OK, info |-> [info EXCEPT !.path = x.data]]

(* Variant of ParseName that keeps what le_utf8_Copy copied, the part of   *)
(* the name that fits, and goes on.                                        *)
ParseName_truncates(doc, info) ==
    LET x == json_Extract(doc, "name")
    IN  IF x.result # LE_OK THEN [result |-> LE_FAULT, info |-> info]
        ELSE IF le_utf8_Copy(x.data, MAX_RESOURCE_NAME_LEN) # LE_OK
        THEN [result |-> LE_OK,
              info |-> [info EXCEPT !.name = SubSeq(x.data, 1, MAX_RESOURCE_NAME_LEN - 1)]]
        ELSE [result |-> LE_OK, info |-> [info EXCEPT !.name = x.data]]

(* Variant of ParseName that refuses a descriptor whose name is empty. *)
ParseName_refusesEmpty(doc, info) ==
    LET x == json_Extract(doc, "name")
    IN  IF x.result # LE_OK \/ x.data = "" THEN [result |-> LE_FAULT, info |-> info]
        ELSE IF le_utf8_Copy(x.data, MAX_RESOURCE_NAME_LEN) # LE_OK
        THEN [result |-> LE_FAULT, info |-> info]
        ELSE [result |-> LE_OK, info |-> [info EXCEPT !.name = x.data]]

(* ParseSensorInfo, lines 393-412: read the name *)
ParseName(doc, info) ==
    LET x == json_Extract(doc, "name")
    IN  IF x.result # LE_OK THEN [result |-> LE_FAULT, info |-> info]
        ELSE IF le_utf8_Copy(x.data, MAX_RESOURCE_NAME_LEN) # LE_OK
        THEN [result |-> LE_FAULT, info |-> info]
        ELSE [result |-> LE_OK, info |-> [info EXCEPT !.name = x.data]]

(* ParseSensorInfo(jsonStringPtr, sensorInfoPtr): name, path, readOnce,    *)
(* unit in this order, stopping at the first failure.                      *)
ParseSensorInfo(doc, info) ==
    LET n == ParseName(doc, info)
    IN  IF n.result # LE_OK THEN n
        ELSE LET p == ParsePath(doc, n.info)
             IN  IF p.result # LE_OK THEN p
                 ELSE ParseUnit(doc, ParseReadOnce(doc, p.info))

----------------------------------------------------------------------------
(* The world a handler runs in: the program's state, the environment's     *)
(* state, the events of the handler so far (trace) and the value returned  *)
(* by the function that ran last (ret).  out is the handle the caller of   *)
(* sensorFw_RegisterCallback holds once the call is over: the plugins pass *)
(* NULL as returnHandler, a pointer passed by value.                       *)
World ==
    [pool |-> pool, count |-> RegisteredSensorCount, hubRes |-> hubRes,
     hubVal |-> hubVal, psensors |-> psensors, pushHandlers |-> pushHandlers,
     aborted |-> aborted, iio |-> iioAttrs, trace |-> <<>>, ret |-> "none",
     out |-> NULL_REF]

Put(f, k, v) == [x \in DOMAIN f \cup {k} |-> IF x = k THEN v ELSE f[x]]

(* Events of a handler, all of one shape. *)
Ev ==
    [ev |-> "", h |-> 0, api |-> "", fn |-> "", path |-> "", type |-> "", unit |-> "",
     val |-> NoValue, arg |-> "", len |-> 0, ctx |-> NULL, res |-> ""]

AllocEv(h) == [Ev EXCEPT !.ev = "alloc", !.h = h]
ReleaseEv(h) == [Ev EXCEPT !.ev = "release", !.h = h]
CallEv(h, member, fn, arg, len, ctx, res, val) ==
    [Ev EXCEPT !.ev = "call", !.h = h, !.api = member, !.fn = fn, !.arg = arg,
               !.len = len, !.ctx = ctx, !.res = res, !.val = val]
PushEv(api, prim, path, val) ==
    [Ev EXCEPT !.ev = "push", !.api = api, !.type = prim, !.path = path, !.val = val]
CreateEv(api, h, path, type, unit, res) ==
    [Ev EXCEPT !.ev = "create", !.api = api, !.h = h, !.path = path, !.type = type,
               !.unit = unit, !.res = res]
HandlerEv(path, fn, h) == [Ev EXCEPT !.ev = "addHandler", !.path = path, !.fn = fn, !.h = h]
RetEv(fn, h, res) == [Ev EXCEPT !.ev = "return", !.fn = fn, !.h = h, !.res = res]

Log(w, e) == [w EXCEPT !.trace = Append(@, e)]

(* The function fn, run on handler h, returns res. *)
Return(w, fn, h, res) == [Log(w, RetEv(fn, h, res)) EXCEPT !.ret = res]

----------------------------------------------------------------------------
(* Data Hub.  io_PushBoolean / Numeric / String / Json(path, IO_NOW, v):   *)
(* prim names the primitive; the hub then holds, at path, v as a value of  *)
(* the primitive's data type.                                              *)
io_Push(w, prim, path, val) ==
    [Log(w, PushEv("io", prim, path, val))
        EXCEPT !.hubVal = Put(@, path, [val EXCEPT !.kind = prim])]

(* psensor_PushBoolean / Numeric / String / Json(ref, IO_NOW, v): the value *)
(* of the periodic sensor's resource.                                       *)
psensor_Push(w, ref, prim, val) ==
    LET path == w.psensors[ref].name
    IN  [Log(w, PushEv("psensor", prim, path, val))
            EXCEPT !.hubVal = Put(@, path, [val EXCEPT !.kind = prim])]

(* io_CreateInput / io_CreateOutput(path, type, units): LE_OK when created  *)
(* or already there with the same direction, type and units, LE_DUPLICATE   *)
(* when the path holds a different resource, LE_NO_MEMORY when the hub      *)
(* refuses (mode "fail").                                                   *)
io_Create(w, dir, h, path, type, unit, mode) ==
    LET res == [dir |-> dir, type |-> type, unit |-> unit]
        r == IF mode = "fail" THEN LE_NO_MEMORY
             ELSE IF path \notin DOMAIN w.hubRes THEN LE_OK
             ELSE IF w.hubRes[path] = res THEN LE_OK
             ELSE LE_DUPLICATE
        w1 == IF r = LE_OK THEN [w EXCEPT !.hubRes = Put(@, path, res)] ELSE w
    IN  [Log(w1, CreateEv(dir, h, path, type, unit, r)) EXCEPT !.ret = r]

(* psensor_Create(name, type, units, sampleFunc, context): a new periodic   *)
(* sensor and its reference, or NULL (mode "fail").                         *)
psensor_Create(w, path, type, unit, sampleFunc, context, mode) ==
    IF mode = "fail"
    THEN [Log(w, CreateEv("periodic", context, path, type, unit, NULL)) EXCEPT !.ret = NULL_REF]
    ELSE LET ps == [name |-> path, type |-> type, unit |-> unit,
                    sampleFunc |-> sampleFunc, context |-> context]
             res == [dir |-> "periodic", type |-> type, unit |-> unit]
             w1 == [w EXCEPT !.psensors = Append(@, ps),
                             !.hubRes = IF path \in DOMAIN @ THEN @ ELSE Put(@, path, res)]
         IN  [Log(w1, CreateEv("periodic", context, path, type, unit, LE_OK))
                 EXCEPT !.ret = Len(w1.psensors)]

(* io_AddJsonPushHandler(path, handler, context) *)
io_AddJsonPushHandler(w, path, fn, context) ==
    [Log(w, HandlerEv(path, fn, context))
        EXCEPT !.pushHandlers = Append(@, [path |-> path, fn |-> fn, context |-> context])]

----------------------------------------------------------------------------
(* A block of SensorHandlerPool as le_mem_ForceAlloc hands it out. *)
UninitHandler ==
    [info |-> UninitInfo,
     callbacks |-> [configCb |-> Uninit, sample |-> Uninit],
     pluginContextPtr |-> Uninit]

(* le_mem_ForceAlloc(SensorHandlerPool): never returns NULL.  With the      *)
(* SENSOR_HANDLER_POOL_SIZE static blocks all in use it expands the pool    *)
(* and hands out a block all the same.                                      *)
le_mem_ForceAlloc(w) ==
    [Log(w, AllocEv(Len(w.pool) + 1))
        EXCEPT !.pool = Append(@, UninitHandler), !.ret = Len(w.pool) + 1]

(* le_mem_Release(handlerPtr): the block goes back to the pool. *)
le_mem_Release(w, h) ==
    [Log(w, ReleaseEv(h)) EXCEPT !.pool = SubSeq(@, 1, h - 1) \o SubSeq(@, h + 1, Len(@))]

----------------------------------------------------------------------------
(* What a plugin callback answers is the environment's choice: a failure,  *)
(* or success with one of two values of the type it was called at.         *)
CbEnv == {[res |-> LE_OK, pick |-> 1], [res |-> LE_OK, pick |-> 2], [res |-> LE_FAULT, pick |-> 1]}

SampleValue(kind, pick) ==
    CASE kind = "Boolean" -> BoolV(pick = 1)
      [] kind = "Numeric" -> NumV(41 + pick)
      [] kind = "String" -> StrV(IF pick = 1 THEN "s1" ELSE "s2")
      [] OTHER -> JsonV(IF pick = 1 THEN "{\"v\":1}" ELSE "{\"v\":2}")

(* What the config callback answers when it reads the configuration. *)
ReadEnv == {[res |-> LE_OK, pick |-> 1], [res |-> LE_FAULT, pick |-> 1]}

ConfigDoc(pick) == JsonV(IF pick = 1 THEN "{\"rate\":1}" ELSE "{\"rate\":2}")

----------------------------------------------------------------------------
(* The IIO plugin (plugins/iioPlugin/iioPlugin.c).  Its plugin contexts are *)
(* libiio channels; each has one adjustable attribute, "rate", whose value  *)
(* ConfigDoc renders as the sensor's configuration document.               *)
IioChannels == {"chan1", "chan2"}

(* json_loads and json_object_get of the attribute: its number in the      *)
(* incoming text, or 0 when the text is no JSON or has no such member.     *)
IncomingAttr(jsonString) ==
    CASE jsonString = "{\"rate\":1}" -> 1
      [] jsonString = "{\"rate\":2}" -> 2
      [] OTHER -> 0

(* Variant of UpdateIioConfig with the write of the attribute in place. *)
UpdateIioConfig_writes(w, chan, value) == [w EXCEPT !.iio[chan] = value]

(* UpdateIioConfig(chan, attr, json): the incoming number is compared with *)
(* the attribute's value and the difference logged; the write of the       *)
(* attribute (iio_channel_attr_write) is commented out.                    *)
UpdateIioConfig(w, chan, value) == w

(* ProcessIncomingConfig(incomingConfig, chan, attr) *)
ProcessIncomingConfig(w, chan, jsonString) ==
    IF IncomingAttr(jsonString) # 0
    THEN UpdateIioConfig(w, chan, IncomingAttr(jsonString))
    ELSE w

(* What le_utf8_Copy leaves in a destination of destSize bytes. *)
CopiedText(src, destSize) ==
    IF Len(src) < destSize THEN src ELSE SubSeq(src, 1, destSize - 1)

(* ConfigIioSensor(jsonStringPtr, lengthPtr, contextPtr): LE_FAULT without a *)
(* context, a device or a channel (env); else the attributes are read into  *)
(* a document, the incoming text in the buffer is processed, and the        *)
(* document is copied into the same buffer, cut at *lengthPtr.              *)
ConfigIioSensor(w, jsonString, length, contextPtr, env) ==
    IF contextPtr = NULL \/ env.res # LE_OK
    THEN [w |-> w, res |-> LE_FAULT, val |-> NoValue]
    ELSE LET str == ConfigDoc(w.iio[contextPtr]).s
         IN  [w |-> ProcessIncomingConfig(w, contextPtr, jsonString), res |-> LE_OK,
              val |-> JsonV(CopiedText(str, length))]

(* callbacks.configCb(buffer, &length, pluginContextPtr): the IIO plugin's  *)
(* callback, or another plugin's, which answers as the environment chooses. *)
CallConfigCb(w, fn, jsonString, length, contextPtr, env) ==
    IF fn = "ConfigIioSensor"
    THEN ConfigIioSensor(w, jsonString, length, contextPtr, env)
    ELSE [w |-> w, res |-> env.res,
          val |-> IF env.res = LE_OK THEN ConfigDoc(env.pick) ELSE NoValue]

(* Variant of Dispatch that samples a boolean sensor through the numeric   *)
(* push primitive.                                                          *)
Dispatch_boolAsNumeric(type) ==
    CASE type = IO_DATA_TYPE_BOOLEAN ->
            [member |-> "boolCb", cast |-> "Boolean", length |-> SIZEOF_BOOL, prim |-> "Numeric"]
      [] type = IO_DATA_TYPE_NUMERIC ->
            [member |-> "numericCb", cast |-> "Numeric", length |-> SIZEOF_DOUBLE, prim |-> "Numeric"]
      [] type = IO_DATA_TYPE_STRING ->
            [member |-> "stringCb", cast |-> "String", length |-> MAX_RES_STRING_LEN, prim |-> "String"]
      [] type = IO_DATA_TYPE_JSON ->
            [member |-> "jsonCb", cast |-> "Json", length |-> MAX_RES_STRING_LEN, prim |-> "Json"]
      [] OTHER -> [member |-> "none", cast |-> "none", length |-> 0, prim |-> "none"]

(* PushData's switch on info.type: the union member read, the type the     *)
(* callback is called at (the local it writes), the length hint and the    *)
(* push primitive.                                                          *)
Dispatch(type) ==
    CASE type = IO_DATA_TYPE_BOOLEAN ->
            [member |-> "boolCb", cast |-> "Boolean", length |-> SIZEOF_BOOL, prim |-> "Boolean"]
      [] type = IO_DATA_TYPE_NUMERIC ->
            [member |-> "numericCb", cast |-> "Numeric", length |-> SIZEOF_DOUBLE, prim |-> "Numeric"]
      [] type = IO_DATA_TYPE_STRING ->
            [member |-> "stringCb", cast |-> "String", length |-> MAX_RES_STRING_LEN, prim |-> "String"]
      [] type = IO_DATA_TYPE_JSON ->
            [member |-> "jsonCb", cast |-> "Json", length |-> MAX_RES_STRING_LEN, prim |-> "Json"]
      [] OTHER -> [member |-> "none", cast |-> "none", length |-> 0, prim |-> "none"]

(* Variant of PushSampleValue that pushes every sample to the Hub at the    *)
(* sensor's path, periodic or not.                                          *)
PushSampleValue_alwaysIo(w, h, prim, val) ==
    io_Push(w, prim, w.pool[h].info.path, val)

(* The push of a sample: io_Push<prim>(path) for a read-once sensor,       *)
(* psensor_Push<prim>(sensorRef) otherwise.                                *)
PushSampleValue(w, h, prim, val) ==
    IF w.pool[h].info.isReadOnce
    THEN io_Push(w, prim, w.pool[h].info.path, val)
    ELSE psensor_Push(w, w.pool[h].info.sensorRef, prim, val)

(* Variant of PushData that pushes whatever the callback's result and      *)
(* always returns LE_OK.                                                    *)
PushData_ignoresResult(w, h, env) ==
    LET hp == w.pool[h]
        d == Dispatch(hp.info.type)
        val == SampleValue(d.cast, env.pick)
        w1 == Log(w, CallEv(h, d.member, hp.callbacks.sample, "", d.length,
                            hp.pluginContextPtr, env.res, val))
    IN  IF d.member = "none" THEN Return(w, "PushData", h, LE_OK)
        ELSE Return(PushSampleValue(w1, h, d.prim, val), "PushData", h, LE_OK)

(* Variant of PushData that disables a periodic sensor whose sample        *)
(* callback failed.                                                        *)
PushData_disablesOnFailure(w, h, env) ==
    LET hp == w.pool[h]
        d == Dispatch(hp.info.type)
        val == IF env.res = LE_OK THEN SampleValue(d.cast, env.pick) ELSE NoValue
        w1 == Log(w, CallEv(h, d.member, hp.callbacks.sample, "", d.length,
                            hp.pluginContextPtr, env.res, val))
    IN  IF d.member = "none" THEN Return(w, "PushData", h, LE_OK)
        ELSE IF env.res = LE_OK
        THEN Return(PushSampleValue(w1, h, d.prim, val), "PushData", h, LE_OK)
        ELSE IF hp.info.isReadOnce THEN Return(w1, "PushData", h, LE_FAULT)
        ELSE Return([w1 EXCEPT !.hubVal = Put(@, hp.info.path \o "/enable", BoolV(FALSE))],
                    "PushData", h, LE_FAULT)

(* PushData(handlerPtr): call the sample callback of info.type; push the   *)
(* sample when it returned LE_OK, else return LE_FAULT.  An info.type      *)
(* outside the four cases logs an error and returns LE_OK.                 *)
PushData(w, h, env) ==
    LET hp == w.pool[h]
        d == Dispatch(hp.info.type)
        val == IF env.res = LE_OK THEN SampleValue(d.cast, env.pick) ELSE NoValue
        w1 == Log(w, CallEv(h, d.member, hp.callbacks.sample, "", d.length,
                            hp.pluginContextPtr, env.res, val))
    IN  IF d.member = "none" THEN Return(w, "PushData", h, LE_OK)
        ELSE IF env.res = LE_OK
        THEN Return(PushSampleValue(w1, h, d.prim, val), "PushData", h, LE_OK)
        ELSE Return(w1, "PushData", h, LE_FAULT)

(* Variant of PushConfig that pushes the buffer whatever the result. *)
PushConfig_ignoresResult(w, h, env, stack) ==
    LET hp == w.pool[h]
        val == ConfigDoc(env.pick)
        w1 == Log(w, CallEv(h, "configCb", hp.callbacks.configCb, stack, MAX_RES_STRING_LEN,
                            hp.pluginContextPtr, env.res, val))
        resourcePath == hp.info.path \o "/config"
    IN  Return(io_Push(w1, "Json", resourcePath, val), "PushConfig", h, LE_OK)

(* PushConfig(handlerPtr): call the config callback on a local buffer      *)
(* (not initialised: stack is what it holds) with the buffer's size; push  *)
(* the document to "<path>/config" when it returned LE_OK, else return     *)
(* LE_FAULT.                                                                *)
PushConfig(w, h, env, stack) ==
    LET hp == w.pool[h]
        r == CallConfigCb(w, hp.callbacks.configCb, stack, MAX_RES_STRING_LEN,
                          hp.pluginContextPtr, env)
        w1 == Log(r.w, CallEv(h, "configCb", hp.callbacks.configCb, stack, MAX_RES_STRING_LEN,
                              hp.pluginContextPtr, r.res, r.val))
        resourcePath == hp.info.path \o "/config"
    IN  IF r.res = LE_OK
        THEN Return(io_Push(w1, "Json", resourcePath, r.val), "PushConfig", h, LE_OK)
        ELSE Return(w1, "PushConfig", h, LE_FAULT)

(* Variant of ConfigUpdateHandler that pushes the configuration the         *)
(* callback reported back to "<path>/config".                               *)
ConfigUpdateHandler_repushes(w, jsonString, context, env) ==
    IF context = NULL_REF THEN w
    ELSE LET hp == w.pool[context]
             r == CallConfigCb(w, hp.callbacks.configCb, jsonString, Len(jsonString),
                               hp.pluginContextPtr, env)
             w1 == Log(r.w, CallEv(context, "configCb", hp.callbacks.configCb, jsonString,
                                   Len(jsonString), hp.pluginContextPtr, r.res, r.val))
         IN  IF r.res = LE_OK
             THEN io_Push(w1, "Json", hp.info.path \o "/config", r.val)
             ELSE w1

(* ConfigUpdateHandler(timestamp, jsonStringPtr, contextPtr): call the     *)
(* handler's config callback with the incoming text and its length; the    *)
(* result and what the callback left in the buffer are dropped and nothing *)
(* is pushed.                                                              *)
ConfigUpdateHandler(w, jsonString, context, env) ==
    IF context = NULL_REF THEN w
    ELSE LET hp == w.pool[context]
             r == CallConfigCb(w, hp.callbacks.configCb, jsonString, Len(jsonString),
                               hp.pluginContextPtr, env)
         IN  Log(r.w, CallEv(context, "configCb", hp.callbacks.configCb, jsonString,
                             Len(jsonString), hp.pluginContextPtr, r.res, r.val))

(* Variant of SampleSensor that forgets the plugin context once the sample *)
(* is taken.                                                               *)
SampleSensor_dropsContext(w, ref, context, env) ==
    IF context = NULL_REF THEN w
    ELSE [PushData(w, context, env) EXCEPT !.pool[context].pluginContextPtr = NULL]

(* SampleSensor(sensorRef, contextPtr): the periodic sensor's tick *)
SampleSensor(w, ref, context, env) ==
    IF context = NULL_REF THEN w ELSE PushData(w, context, env)

----------------------------------------------------------------------------
(* What the environment answers during one sensorFw_RegisterCallback.      *)
RegEnv ==
    [create : {"ok", "fail"}, sample : CbEnv,
     createOut : {"ok", "fail"}, config : ReadEnv, stack : {"", "stale"}]

(* Variant of CreateResource that leaves out the default period. *)
CreateResource_noPeriod(w, h, mode) ==
    LET info == w.pool[h].info
    IN  IF info.isReadOnce
        THEN LET w1 == io_Create([w EXCEPT !.pool[h].info.sensorRef = NULL_REF],
                                 "input", h, info.path, info.type, info.unit, mode)
             IN  IF w1.ret \in {LE_OK, LE_DUPLICATE} THEN w1 ELSE [w1 EXCEPT !.aborted = TRUE]
        ELSE LET w1 == psensor_Create(w, info.path, info.type, info.unit, "SampleSensor", h, mode)
             IN  IF w1.ret = NULL_REF THEN [w1 EXCEPT !.aborted = TRUE]
                 ELSE io_Push([w1 EXCEPT !.pool[h].info.sensorRef = w1.ret],
                              "Boolean", info.path \o "/enable", BoolV(TRUE))

(* Variant of CreateResource that makes every sensor a periodic one. *)
CreateResource_alwaysPeriodic(w, h, mode) ==
    LET info == w.pool[h].info
        w1 == psensor_Create(w, info.path, info.type, info.unit, "SampleSensor", h, mode)
    IN  IF w1.ret = NULL_REF THEN [w1 EXCEPT !.aborted = TRUE]
        ELSE io_Push(io_Push([w1 EXCEPT !.pool[h].info.sensorRef = w1.ret],
                             "Boolean", info.path \o "/enable", BoolV(TRUE)),
                     "Numeric", info.path \o "/period", NumV(DEFAULT_SAMPLING_PERIOD_SEC))

(* AddDataHubEntry, lines 334-368: an input for a read-once sensor; else a *)
(* periodic sensor with this handler as the context of SampleSensor, then  *)
(* "<path>/enable" set to true and "<path>/period" to the default.  Each   *)
(* LE_ASSERT that fails terminates the process.                            *)
CreateResource(w, h, mode) ==
    LET info == w.pool[h].info
    IN  IF info.isReadOnce
        THEN LET w1 == io_Create([w EXCEPT !.pool[h].info.sensorRef = NULL_REF],
                                 "input", h, info.path, info.type, info.unit, mode)
             IN  IF w1.ret \in {LE_OK, LE_DUPLICATE} THEN w1 ELSE [w1 EXCEPT !.aborted = TRUE]
        ELSE LET w1 == psensor_Create(w, info.path, info.type, info.unit, "SampleSensor", h, mode)
             IN  IF w1.ret = NULL_REF THEN [w1 EXCEPT !.aborted = TRUE]
                 ELSE io_Push(io_Push([w1 EXCEPT !.pool[h].info.sensorRef = w1.ret],
                                      "Boolean", info.path \o "/enable", BoolV(TRUE)),
                              "Numeric", info.path \o "/period",
                              NumV(DEFAULT_SAMPLING_PERIOD_SEC))

(* Variant of AddDataHubEntry without the sample at registration. *)
AddDataHubEntry_noSample(w, h, env) == CreateResource(w, h, env.create)

(* Variant of AddDataHubEntry that samples twice at registration. *)
AddDataHubEntry_samplesTwice(w, h, env) ==
    LET w1 == CreateResource(w, h, env.create)
    IN  IF w1.aborted THEN w1
        ELSE PushData(PushData(w1, h, env.sample), h, env.sample)

(* AddDataHubEntry(handlerPtr): create the resource, then sample once; the *)
(* result of PushData is dropped.                                          *)
AddDataHubEntry(w, h, env) ==
    LET w1 == CreateResource(w, h, env.create)
    IN  IF w1.aborted THEN w1 ELSE PushData(w1, h, env.sample)

(* sensorFw_RegisterCallback's switch on the callback type *)
TypeSwitch(type) ==
    CASE type = CB_NUMERIC -> [valid |-> TRUE, type |-> IO_DATA_TYPE_NUMERIC]
      [] type = CB_BOOLEAN -> [valid |-> TRUE, type |-> IO_DATA_TYPE_BOOLEAN]
      [] type = CB_STRING -> [valid |-> TRUE, type |-> IO_DATA_TYPE_STRING]
      [] type = CB_JSON -> [valid |-> TRUE, type |-> IO_DATA_TYPE_JSON]
      [] OTHER -> [valid |-> FALSE, type |-> Uninit]

(* Variant of ConfigBridge that takes every answer but LE_OK as a failure. *)
ConfigBridge_okOnly(w, h, env) ==
    LET resourcePath == w.pool[h].info.path \o "/config"
        w1 == io_Create(w, "output", h, resourcePath, IO_DATA_TYPE_JSON, "", env.createOut)
    IN  IF w1.ret # LE_OK THEN [w1 EXCEPT !.aborted = TRUE]
        ELSE io_AddJsonPushHandler(PushConfig(w1, h, env.config, env.stack),
                                   resourcePath, "ConfigUpdateHandler", h)

(* Variant of ConfigBridge that installs no push handler. *)
ConfigBridge_noHandler(w, h, env) ==
    LET resourcePath == w.pool[h].info.path \o "/config"
        w1 == io_Create(w, "output", h, resourcePath, IO_DATA_TYPE_JSON, "", env.createOut)
    IN  IF w1.ret \notin {LE_OK, LE_DUPLICATE} THEN [w1 EXCEPT !.aborted = TRUE]
        ELSE PushConfig(w1, h, env.config, env.stack)

(* Variant of ConfigBridge that installs the push handler only when the    *)
(* initial config push went through.                                       *)
ConfigBridge_handlerOnSuccess(w, h, env) ==
    LET resourcePath == w.pool[h].info.path \o "/config"
        w1 == io_Create(w, "output", h, resourcePath, IO_DATA_TYPE_JSON, "", env.createOut)
        w2 == PushConfig(w1, h, env.config, env.stack)
    IN  IF w1.ret \notin {LE_OK, LE_DUPLICATE} THEN [w1 EXCEPT !.aborted = TRUE]
        ELSE IF w2.ret = LE_OK
        THEN io_AddJsonPushHandler(w2, resourcePath, "ConfigUpdateHandler", h)
        ELSE w2

(* sensorFw_RegisterCallback, lines 573-591: the output "<path>/config",   *)
(* the initial config push (result dropped) and the push handler.          *)
ConfigBridge(w, h, env) ==
    LET resourcePath == w.pool[h].info.path \o "/config"
        w1 == io_Create(w, "output", h, resourcePath, IO_DATA_TYPE_JSON, "", env.createOut)
    IN  IF w1.ret \notin {LE_OK, LE_DUPLICATE} THEN [w1 EXCEPT !.aborted = TRUE]
        ELSE io_AddJsonPushHandler(PushConfig(w1, h, env.config, env.stack),
                                   resourcePath, "ConfigUpdateHandler", h)

(* Variant of WireEntry that does not count the sensor. *)
WireEntry_noCount(w, h, cb, env) ==
    LET w1 == AddDataHubEntry(w, h, env)
    IN  IF w1.aborted THEN w1
        ELSE IF (~w1.pool[h].info.isReadOnce) /\ cb.configCb # NULL
        THEN LET w3 == ConfigBridge(w1, h, env)
             IN  IF w3.aborted THEN w3 ELSE [w3 EXCEPT !.ret = LE_OK]
        ELSE [w1 EXCEPT !.ret = LE_OK]

(* Variant of WireEntry that builds the config bridge before the sensor's  *)
(* own resource and first sample.                                          *)
WireEntry_configFirst(w, h, cb, env) ==
    LET w0 == IF (~w.pool[h].info.isReadOnce) /\ cb.configCb # NULL
              THEN ConfigBridge(w, h, env)
              ELSE w
        w1 == AddDataHubEntry(w0, h, env)
    IN  IF w0.aborted THEN w0
        ELSE IF w1.aborted THEN w1
        ELSE [w1 EXCEPT !.count = @ + 1, !.ret = LE_OK]

(* Variant of WireEntry that builds the config bridge of every sensor with *)
(* a config callback, read-once or not.                                    *)
WireEntry_bridgeReadOnce(w, h, cb, env) ==
    LET w1 == AddDataHubEntry(w, h, env)
        w2 == [w1 EXCEPT !.count = @ + 1]
    IN  IF w1.aborted THEN w1
        ELSE IF cb.configCb # NULL
        THEN LET w3 == ConfigBridge(w2, h, env)
             IN  IF w3.aborted THEN w3 ELSE [w3 EXCEPT !.ret = LE_OK]
        ELSE [w2 EXCEPT !.ret = LE_OK]

(* Variant of WireEntry that gives the sensor up when its first sample     *)
(* failed.                                                                 *)
WireEntry_checksSample(w, h, cb, env) ==
    LET w1 == AddDataHubEntry(w, h, env)
        w2 == [w1 EXCEPT !.count = @ + 1]
    IN  IF w1.aborted THEN w1
        ELSE IF w1.ret # LE_OK THEN [le_mem_Release(w1, h) EXCEPT !.ret = LE_FAULT]
        ELSE IF (~w2.pool[h].info.isReadOnce) /\ cb.configCb # NULL
        THEN LET w3 == ConfigBridge(w2, h, env)
             IN  IF w3.aborted THEN w3 ELSE [w3 EXCEPT !.ret = LE_OK]
        ELSE [w2 EXCEPT !.ret = LE_OK]

(* sensorFw_RegisterCallback, lines 568-593: the Data Hub resource, the    *)
(* count, the config bridge of a periodic sensor with a config callback.   *)
WireEntry(w, h, cb, env) ==
    LET w1 == AddDataHubEntry(w, h, env)
        w2 == [w1 EXCEPT !.count = @ + 1]
    IN  IF w1.aborted THEN w1
        ELSE IF (~w2.pool[h].info.isReadOnce) /\ cb.configCb # NULL
        THEN LET w3 == ConfigBridge(w2, h, env)
             IN  IF w3.aborted THEN w3 ELSE [w3 EXCEPT !.ret = LE_OK]
        ELSE [w2 EXCEPT !.ret = LE_OK]

(* sensorFw_RegisterCallback(jsonStringPtr, type, cbPtr, contextPtr,       *)
(* returnHandler): returnHandler is not used, nothing is written through   *)
(* it and the handler's address is not returned (w.out stays as it was).   *)
sensorFw_RegisterCallback(w, doc, type, cb, ctx, env) ==
    LET w0 == le_mem_ForceAlloc(w)
        h == w0.ret
        p == ParseSensorInfo(doc, w0.pool[h].info)
        w1 == [w0 EXCEPT !.pool[h].info = [p.info EXCEPT !.sensorId = w0.count],
                         !.pool[h].callbacks.configCb = cb.configCb,
                         !.pool[h].pluginContextPtr = ctx]
        t == TypeSwitch(type)
        w2 == [w1 EXCEPT !.pool[h].info.type = t.type,
                         !.pool[h].callbacks.sample = cb.sample]
    IN  IF p.result # LE_OK THEN [le_mem_Release(w0, h) EXCEPT !.ret = LE_FAULT]
        ELSE IF ~t.valid THEN [w1 EXCEPT !.ret = LE_FAULT]
        ELSE WireEntry(w2, h, cb, env)

(* Variant of sensorFw_PushSample that reports success whatever PushData   *)
(* returned.                                                               *)
sensorFw_PushSample_alwaysOk(w, h, env) ==
    IF h = NULL_REF THEN [w EXCEPT !.ret = LE_FAULT]
    ELSE [PushData(w, h, env) EXCEPT !.ret = LE_OK]

(* sensorFw_PushSample(handlerPtr) *)
sensorFw_PushSample(w, h, env) ==
    IF h = NULL_REF THEN [w EXCEPT !.ret = LE_FAULT] ELSE PushData(w, h, env)

----------------------------------------------------------------------------
(* The registrations the plugins may ask for: a descriptor, a callback     *)
(* type, the callbacks and a context.  Any of them may be asked for at any *)
(* time, and more than once.                                               *)
Request(doc, type, configCb, sample, ctx) ==
    [doc |-> doc, type |-> type, cb |-> [configCb |-> configCb, sample |-> sample],
     ctx |-> ctx]

Chars10 == "0123456789"
Chars20 == Chars10 \o Chars10
Chars80 == Chars20 \o Chars20 \o Chars20 \o Chars20

ValidRequests ==
    { \* as the device-management plugin registers: empty name, no config, no context
      Request(Descriptor(JString(""), JString("a"), JBoolean(TRUE), JString("")),
              CB_STRING, NULL, "GetSerialNumber", NULL),
      Request(Descriptor(JString(""), JString("b"), JBoolean(FALSE), JString("")),
              CB_BOOLEAN, NULL, "GetRoamingIndicator", NULL),
      \* as the IIO plugin registers: config callback and channel context
      Request(Descriptor(JString("accel"), JString("a"), Absent, JString("m/s2")),
              CB_NUMERIC, "ConfigIioSensor", "ReadIioSensor", "chan1"),
      Request(Descriptor(JString("gyro"), JString("b"), JString("yes"), JString("")),
              CB_JSON, "ConfigIioSensor", "ReadIioBuffer", "chan2"),
      \* read-once sensors with a context, with and without a config callback
      Request(Descriptor(JString("once"), JString("a"), JBoolean(TRUE), JNumber("5")),
              CB_NUMERIC, "ConfigOnce", "ReadOnce", "chan2"),
      Request(Descriptor(JString("geo"), JString("b"), JBoolean(TRUE), JString("")),
              CB_JSON, NULL, "ReadGeo", "chan1") }

BadRequests ==
    { Request(Descriptor(Absent, JString("a"), JBoolean(TRUE), JString("")),
              CB_STRING, NULL, "GetSerialNumber", NULL),
      Request(Descriptor(JString("accel"), Absent, Absent, JString("m/s2")),
              CB_NUMERIC, "ConfigIioSensor", "ReadIioSensor", "chan1"),
      Request(Descriptor(JString("accel"), JString("a"), Absent, Absent),
              CB_NUMERIC, "ConfigIioSensor", "ReadIioSensor", "chan1"),
      Request([Descriptor(JString("accel"), JString("a"), Absent, JString(""))
                  EXCEPT !.wellFormed = FALSE],
              CB_NUMERIC, "ConfigIioSensor", "ReadIioSensor", "chan1"),
      Request(Descriptor(JString(Chars20), JString("a"), Absent, JString("")),
              CB_NUMERIC, "ConfigIioSensor", "ReadIioSensor", "chan1"),
      Request(Descriptor(JString("accel"), JString(Chars80), Absent, JString("")),
              CB_NUMERIC, "ConfigIioSensor", "ReadIioSensor", "chan1"),
      Request(Descriptor(JString("accel"), JString("a"), Absent, JString(Chars20 \o Chars10)),
              CB_NUMERIC, "ConfigIioSensor", "ReadIioSensor", "chan1"),
      \* a well-formed descriptor with a callback type outside the enumeration
      Request(Descriptor(JString("accel"), JString("a"), Absent, JString("")),
              CB_OUT_OF_RANGE, "ConfigIioSensor", "ReadIioSensor", "chan1") }

Requests == ValidRequests \cup BadRequests

NoRequest == Request(Descriptor(Absent, Absent, Absent, Absent), "", NULL, NULL, NULL)

(* JSON documents an external actor pushes to "<path>/config" *)
ConfigInputs == {"{\"x\": 5}", "{\"rate\":2}"}

----------------------------------------------------------------------------
(* The handlers whose registration completed: the sensors. *)
IsRegistered(hp) == hp.info.type # Uninit

Registered == {h \in 1..Len(pool) : IsRegistered(pool[h])}

(* What the history keeps of the state an operation started in. *)
Snapshot ==
    [count |-> RegisteredSensorCount, blocks |-> Len(pool),
     psensors |-> Len(psensors), pushHandlers |-> Len(pushHandlers)]

(* What the Data Hub holds when the framework starts: an input that        *)
(* another component of the application made at "b/config".                *)
(* The threads of the process: the one of the component's event loop, on   *)
(* which COMPONENT_INIT, the periodic sensors' timers and the Hub's push   *)
(* handlers run, and one more thread of a plugin.  A thread is at rest or  *)
(* inside the sample callback of a handler.                                *)
Threads == {"loop", "plugin"}

AtRest == [h |-> NULL_REF, op |-> "none"]

ForeignResources ==
    [p \in {"b/config"} |-> [dir |-> "input", type |-> IO_DATA_TYPE_STRING, unit |-> ""]]

Init ==
    /\ pool = <<>>
    /\ RegisteredSensorCount = 0
    /\ hubRes = ForeignResources
    /\ hubVal = <<>>
    /\ psensors = <<>>
    /\ pushHandlers = <<>>
    /\ aborted = FALSE
    /\ call = [op |-> "init", h |-> NULL_REF, req |-> NoRequest, path |-> "", arg |-> "",
               result |-> "none", out |-> NULL_REF, trace |-> <<>>, pre |-> Snapshot]
    /\ running = [t \in Threads |-> AtRest]
    /\ iioAttrs = [c \in IioChannels |-> 1]
    /\ dmIndex = 0

(* The state after a handler ran to its end (or terminated the process).   *)
Commit(w, op, h, req, path, arg) ==
    /\ pool' = w.pool
    /\ RegisteredSensorCount' = w.count
    /\ hubRes' = w.hubRes
    /\ hubVal' = w.hubVal
    /\ psensors' = w.psensors
    /\ pushHandlers' = w.pushHandlers
    /\ aborted' = w.aborted
    /\ iioAttrs' = w.iio
    /\ call' = [op |-> op, h |-> h, req |-> req, path |-> path, arg |-> arg,
                result |-> IF w.aborted THEN "aborted" ELSE w.ret,
                out |-> w.out, trace |-> w.trace, pre |-> Snapshot]

(* The answers of the environment that a registration of req can consult: *)
(* none when the descriptor or the type is refused, none after a creation  *)
(* failed, those of the config bridge only for a periodic sensor with a    *)
(* config callback.  The answers never consulted are left at their         *)
(* defaults.                                                               *)
DefaultEnv ==
    [create |-> "ok", sample |-> [res |-> LE_OK, pick |-> 1],
     createOut |-> "ok", config |-> [res |-> LE_OK, pick |-> 1], stack |-> ""]

HasConfigBridge(req) ==
    /\ req.cb.configCb # NULL
    /\ ~ParseReadOnce(req.doc, UninitInfo).isReadOnce

RegEnvFor(req) ==
    {e \in RegEnv :
        /\ req \in BadRequests => e = DefaultEnv
        /\ e.create = "fail" => e = [DefaultEnv EXCEPT !.create = "fail"]
        /\ (~HasConfigBridge(req) \/ e.createOut = "fail") =>
              /\ e.config = DefaultEnv.config
              /\ e.stack = DefaultEnv.stack
        /\ ~HasConfigBridge(req) => e.createOut = DefaultEnv.createOut}

(* A plugin registers a sensor. *)
Register ==
    /\ ~aborted
    /\ Len(pool) < MaxBlocks
    /\ \E req \in Requests : \E env \in RegEnvFor(req) :
          Commit(sensorFw_RegisterCallback(World, req.doc, req.type, req.cb, req.ctx, env),
                 "Register", Len(pool) + 1, req, "", "")
    /\ UNCHANGED <<running, dmIndex>>

(* The periodic sensor component samples an enabled sensor. *)
IsEnabled(ref) ==
    LET p == psensors[ref].name \o "/enable"
    IN  p \in DOMAIN hubVal /\ hubVal[p] = BoolV(TRUE)

(* The timer of periodic sensor ref expires. *)
TickOf(ref) ==
    /\ ~aborted
    /\ ref \in 1..Len(psensors)
    /\ IsEnabled(ref)
    /\ \E env \in CbEnv :
          \E w \in {SampleSensor(World, ref, psensors[ref].context, env)} :
              Commit(w, "Tick", psensors[ref].context, NoRequest, "", "")
    /\ UNCHANGED <<running, dmIndex>>

Tick == \E ref \in 1..MaxBlocks : TickOf(ref)

(* A plugin samples again by hand, on a sensor's handler or on NULL. *)
ManualPush ==
    /\ ~aborted
    /\ \E h \in Registered \cup {NULL_REF}, env \in CbEnv :
          Commit(sensorFw_PushSample(World, h, env), "PushSample", h, NoRequest, "", "")
    /\ UNCHANGED <<running, dmIndex>>

(* What the config callback answers when it is handed an incoming         *)
(* document: its result is all ConfigUpdateHandler could look at.          *)
ApplyEnv == {[res |-> LE_OK, pick |-> 1], [res |-> LE_FAULT, pick |-> 1]}

(* The hub runs the push handlers installed at path, in order. *)
RECURSIVE RunPushHandlers(_, _, _, _, _)
RunPushHandlers(w, i, path, jsonString, envs) ==
    IF i > Len(w.pushHandlers) THEN w
    ELSE LET ph == w.pushHandlers[i]
             w1 == IF ph.path = path
                   THEN ConfigUpdateHandler(w, jsonString, ph.context, envs[i])
                   ELSE w
         IN  RunPushHandlers(w1, i + 1, path, jsonString, envs)

(* An external actor pushes a JSON document to a "<path>/config" that has a *)
(* push handler.                                                            *)
ExternalConfigPush ==
    /\ ~aborted
    /\ \E path \in {pushHandlers[i].path : i \in 1..Len(pushHandlers)}, doc \in ConfigInputs :
       \E envs \in {f \in [1..Len(pushHandlers) -> ApplyEnv] :
                       \A i \in 1..Len(pushHandlers) :
                           pushHandlers[i].path # path => f[i].res = LE_OK} :
          LET w == [World EXCEPT !.hubVal = Put(@, path, JsonV(doc))]
          IN  Commit([RunPushHandlers(w, 1, path, doc, envs) EXCEPT !.ret = "none"],
                     "ConfigPush", NULL_REF, NoRequest, path, doc)
    /\ UNCHANGED <<running, dmIndex>>

Next == Register \/ Tick \/ ManualPush \/ ExternalConfigPush

Spec == Init /\ [][Next]_vars

(* The same program with the periodic sensor component's timers running:   *)
(* the timer of a sensor is repetitive, so a sensor that stays enabled is  *)
(* sampled again and again.                                                *)
FairSpec == Spec /\ \A ref \in 1..MaxBlocks : WF_vars(TickOf(ref))

----------------------------------------------------------------------------
(* The device-management plugin (plugins/dmPlugin/dm.c). *)
DmRow(path, isReadOnce, unit, config, type, sampleFunction) ==
    [path |-> path, isReadOnce |-> isReadOnce, unit |-> unit, config |-> config,
     type |-> type, sampleFunction |-> sampleFunction]

DmHandlers ==
    << DmRow("device/SN", TRUE, "", NULL, CB_STRING, "GetSerialNumber"),
       DmRow("device/imei", TRUE, "", NULL, CB_STRING, "GetImei"),
       DmRow("device/iccid", TRUE, "", NULL, CB_STRING, "GetIccid"),
       DmRow("device/model", TRUE, "", NULL, CB_STRING, "GetModelNumber"),
       DmRow("device/version", TRUE, "", NULL, CB_STRING, "GetVersion"),
       DmRow("device/temperature", FALSE, "deg C", NULL, CB_NUMERIC, "GetTemperature"),
       DmRow("device/resetInfo", TRUE, "", NULL, CB_STRING, "GetResetInfo"),
       DmRow("device/time", FALSE, "", NULL, CB_STRING, "GetTime"),
       DmRow("device/tz", TRUE, "", NULL, CB_STRING, "GetTimezone"),
       DmRow("cell/SS", FALSE, "dB", NULL, CB_NUMERIC, "GetSignalStrength"),
       DmRow("cell/bearer", FALSE, "", NULL, CB_STRING, "GetBearer"),
       DmRow("cell/mcc", FALSE, "", NULL, CB_NUMERIC, "GetMcc"),
       DmRow("cell/mnc", FALSE, "", NULL, CB_NUMERIC, "GetMnc"),
       DmRow("cell/cellId", FALSE, "", NULL, CB_NUMERIC, "GetCellId"),
       DmRow("cell/isRoaming", FALSE, "", NULL, CB_BOOLEAN, "GetRoamingIndicator"),
       DmRow("position/latitude", FALSE, "Deg", NULL, CB_STRING, "GetLatitude"),
       DmRow("position/longitude", FALSE, "Deg", NULL, CB_STRING, "GetLongitude"),
       DmRow("position/altitude", FALSE, "m", NULL, CB_STRING, "GetAltitude"),
       DmRow("position/direction", FALSE, "Deg", NULL, CB_NUMERIC, "GetDirection"),
       DmRow("position/hSpeed", FALSE, "m/s", NULL, CB_NUMERIC, "GetHorizontalSpeed"),
       DmRow("position/vSpeed", FALSE, "m/s", NULL, CB_NUMERIC, "GetVerticalSpeed"),
       DmRow("position/timeStamp", FALSE, "s", NULL, CB_NUMERIC, "GetLocationTimeStamp"),
       DmRow("ulpm/bootReason", TRUE, "", NULL, CB_STRING, "GetBootReason") >>

(* The loop of COMPONENT_INIT is followed through the first rows of the    *)
(* table: five read-once rows and the first periodic one.                  *)
DmRowsFollowed == 6

(* GetJsonDocument(name, path, isReadOnce, unit) *)
GetJsonDocument(name, path, isReadOnce, unit) ==
    Descriptor(JString(name), JString(path), JBoolean(isReadOnce), JString(unit))

(* What COMPONENT_INIT passes to sensorFw_RegisterCallback for row i (from *)
(* 1): the document with the empty name, the row's type, callbacks zeroed  *)
(* but for the row's sample function, and NULL as context.                 *)
DmRequest(i) ==
    Request(GetJsonDocument("", DmHandlers[i].path, DmHandlers[i].isReadOnce,
                            DmHandlers[i].unit),
            DmHandlers[i].type, NULL, DmHandlers[i].sampleFunction, NULL)

(* One turn of the loop: register the next row; the result is logged and   *)
(* the loop goes on, unless the call terminated the process.               *)
DmRegisterRow ==
    /\ ~aborted
    /\ dmIndex < DmRowsFollowed
    /\ dmIndex < Len(DmHandlers)
    /\ \E env \in RegEnvFor(DmRequest(dmIndex + 1)) :
          LET req == DmRequest(dmIndex + 1)
          IN  Commit(sensorFw_RegisterCallback(World, req.doc, req.type, req.cb, req.ctx, env),
                     "Register", Len(pool) + 1, req, "", "")
    /\ dmIndex' = dmIndex + 1
    /\ UNCHANGED running

DmNext == DmRegisterRow

(* The process of the DM plugin while its COMPONENT_INIT runs. *)
DmSpec == Init /\ [][DmNext]_vars

----------------------------------------------------------------------------
(* The same program with its dispatches cut at the call of the sample      *)
(* callback, for a process in which a plugin also calls                    *)
(* sensorFw_PushSample from a thread of its own.  Between the entry of     *)
(* SampleSensor or sensorFw_PushSample and the call of the callback in     *)
(* PushData nothing is locked or waited for.                               *)
state ==
    <<pool, RegisteredSensorCount, hubRes, hubVal, psensors, pushHandlers, aborted, call,
      iioAttrs, dmIndex>>

(* Registration runs on the event loop's thread, in COMPONENT_INIT. *)
ThreadedRegister ==
    /\ running["loop"] = AtRest
    /\ Register

(* A periodic sensor's timer expires: SampleSensor, PushData up to the     *)
(* call of the sample callback.                                            *)
EnterTick ==
    /\ ~aborted
    /\ running["loop"] = AtRest
    /\ \E ref \in 1..Len(psensors) :
          /\ IsEnabled(ref)
          /\ psensors[ref].context # NULL_REF
          /\ running' = [running EXCEPT !["loop"] = [h |-> psensors[ref].context, op |-> "Tick"]]
    /\ UNCHANGED state

(* A thread calls sensorFw_PushSample on a handler: PushData up to the     *)
(* call of the sample callback.                                            *)
EnterPushSample ==
    /\ ~aborted
    /\ \E t \in Threads, h \in Registered :
          /\ running[t] = AtRest
          /\ running' = [running EXCEPT ![t] = [h |-> h, op |-> "PushSample"]]
    /\ UNCHANGED state

(* The sample callback returns and the rest of PushData runs. *)
LeaveCallback ==
    /\ ~aborted
    /\ \E t \in Threads, env \in CbEnv :
          /\ running[t] # AtRest
          /\ Commit(PushData(World, running[t].h, env), running[t].op, running[t].h,
                    NoRequest, "", "")
          /\ running' = [running EXCEPT ![t] = AtRest]
          /\ UNCHANGED dmIndex

ThreadedNext == ThreadedRegister \/ EnterTick \/ EnterPushSample \/ LeaveCallback

ThreadedSpec == Init /\ [][ThreadedNext]_vars

----------------------------------------------------------------------------
(* Vocabulary of the properties below *)
T == call.trace

Idx == 1..Len(call.trace)

SampleMembers == {"boolCb", "numericCb", "stringCb", "jsonCb"}

IsSampleCall(e) == e.ev = "call" /\ e.api \in SampleMembers

IsConfigCall(e) == e.ev = "call" /\ e.api = "configCb"

IsPushAt(e, path) == e.ev = "push" /\ e.path = path

HubAt(hv, path) == IF path \in DOMAIN hv THEN hv[path] ELSE NoValue

Parses(doc) == ParseSensorInfo(doc, UninitInfo).result = LE_OK

MissingRequired(doc) == \E f \in {"name", "path", "unit"} : doc[f].type = "absent"

(* Register ran on a descriptor that parses, with a valid callback type,   *)
(* and returned.                                                           *)
ValidRegisterReturned ==
    /\ call.op = "Register"
    /\ call.result # "aborted"
    /\ Parses(call.req.doc)
    /\ call.req.type \in sensorfwDataType_t

----------------------------------------------------------------------------
(* C1, as stated: for every descriptor that parses and every valid payload *)
(* kind, one Register call increases the registered count by exactly one   *)
(* and, by the time it returns, a push for the entry has occurred that     *)
(* carries the value its sample callback produced during the call.         *)
C1_RegisterAlwaysPushes ==
    ValidRegisterReturned =>
        /\ RegisteredSensorCount = call.pre.count + 1
        /\ \E i, j \in Idx :
              /\ i < j
              /\ IsSampleCall(T[i]) /\ T[i].h = call.h
              /\ IsPushAt(T[j], pool[call.h].info.path)
              /\ T[j].val = T[i].val

(* C1, amended: every Register call on a descriptor that parses, with a    *)
(* valid payload kind, that returns, returns success and increases the     *)
(* registered count by exactly one; by then the entry's sample callback    *)
(* was called, and a push for the entry carrying the value it produced has *)
(* occurred if it returned success, and no sample push if it failed.       *)
C1_RegisterCountsAndPushesOnSuccess ==
    ValidRegisterReturned =>
        /\ call.result = LE_OK
        /\ RegisteredSensorCount = call.pre.count + 1
        /\ \E i \in Idx :
              /\ IsSampleCall(T[i]) /\ T[i].h = call.h
              /\ T[i].res = LE_OK =>
                    /\ \E j \in Idx : /\ i < j
                                      /\ IsPushAt(T[j], pool[call.h].info.path)
                                      /\ T[j].val = T[i].val
                    /\ HubAt(hubVal, pool[call.h].info.path) = T[i].val
              /\ T[i].res # LE_OK =>
                    \A j \in Idx : ~IsPushAt(T[j], pool[call.h].info.path)

(* C1, witness: a second sensor registered, its first sample pushed. *)
C1_Witness ==
    /\ ValidRegisterReturned
    /\ call.pre.count = 1 /\ RegisteredSensorCount = 2
    /\ \E i, j \in Idx :
          /\ i < j
          /\ IsSampleCall(T[i]) /\ T[i].h = call.h /\ T[i].res = LE_OK
          /\ IsPushAt(T[j], pool[call.h].info.path) /\ T[j].val = T[i].val

(* C2: when name, path or unit is missing from the descriptor, Register    *)
(* returns a failure, the registered count is unchanged, no Hub resource   *)
(* is created, nothing is pushed and no plugin callback is called.         *)
C2_MissingFieldRefused ==
    (call.op = "Register" /\ MissingRequired(call.req.doc)) =>
        /\ call.result = LE_FAULT
        /\ RegisteredSensorCount = call.pre.count
        /\ Len(pool) = call.pre.blocks
        /\ Len(psensors) = call.pre.psensors
        /\ Len(pushHandlers) = call.pre.pushHandlers
        /\ \A i \in Idx : T[i].ev \notin {"create", "push", "call", "addHandler"}

(* C2, witness: a descriptor without a unit refused after one sensor was   *)
(* registered.                                                             *)
C2_Witness ==
    /\ call.op = "Register"
    /\ call.req.doc.unit.type = "absent" /\ call.req.doc.name.type # "absent"
    /\ call.req.doc.path.type # "absent"
    /\ call.result = LE_FAULT
    /\ call.pre.count = 1 /\ RegisteredSensorCount = 1

(* C3, as stated: on every path where Register returns a failure, the      *)
(* number of blocks allocated in the sensor pool is the same after the     *)
(* call as before it.                                                      *)
C3_FailedRegisterLeavesNoBlock ==
    (call.op = "Register" /\ call.result = LE_FAULT) => Len(pool) = call.pre.blocks

(* C4, as stated: with the pool holding as many blocks as its capacity,    *)
(* the next Register call fails, creates no entry and leaves the count     *)
(* unchanged; with fewer, a call that is otherwise valid is not refused.   *)
C4_FullPoolRefusesRegister ==
    /\ (/\ call.op = "Register" /\ call.result # "aborted"
        /\ call.pre.blocks >= SENSOR_HANDLER_POOL_SIZE) =>
          /\ call.result = LE_FAULT
          /\ Len(pool) = call.pre.blocks
          /\ RegisteredSensorCount = call.pre.count
    /\ (ValidRegisterReturned /\ call.pre.blocks < SENSOR_HANDLER_POOL_SIZE) =>
          call.result = LE_OK

----------------------------------------------------------------------------
(* The push primitive of a declared payload kind, that of a stored data    *)
(* type, and the member of the callback union read for a primitive.        *)
PrimOf(type) ==
    CASE type = CB_BOOLEAN -> "Boolean"
      [] type = CB_NUMERIC -> "Numeric"
      [] type = CB_STRING -> "String"
      [] type = CB_JSON -> "Json"
      [] OTHER -> "none"

IoKind(type) ==
    CASE type = IO_DATA_TYPE_BOOLEAN -> "Boolean"
      [] type = IO_DATA_TYPE_NUMERIC -> "Numeric"
      [] type = IO_DATA_TYPE_STRING -> "String"
      [] type = IO_DATA_TYPE_JSON -> "Json"
      [] OTHER -> "none"

MemberOf(kind) ==
    CASE kind = "Boolean" -> "boolCb"
      [] kind = "Numeric" -> "numericCb"
      [] kind = "String" -> "stringCb"
      [] kind = "Json" -> "jsonCb"
      [] OTHER -> "none"

SamplingOps == {"Register", "Tick", "PushSample"}

(* C5: whenever an entry's sample callback returns a failure during        *)
(* PushData, no push is made at the entry's path, the value the Hub holds  *)
(* there after the operation is the one it held before, PushData returns   *)
(* LE_FAULT, and so does sensorFw_PushSample when it was the caller.       *)
C5_FailedSampleLeavesHubValue ==
    [][\A i \in 1..Len(call'.trace) :
          (IsSampleCall(call'.trace[i]) /\ call'.trace[i].res # LE_OK) =>
              LET h == call'.trace[i].h
                  path == pool'[h].info.path
              IN  /\ \A j \in 1..Len(call'.trace) : ~IsPushAt(call'.trace[j], path)
                  /\ HubAt(hubVal', path) = HubAt(hubVal, path)
                  /\ \E j \in 1..Len(call'.trace) :
                        j > i /\ call'.trace[j] = RetEv("PushData", h, LE_FAULT)
                  /\ call'.op = "PushSample" => call'.result = LE_FAULT]_vars

(* C5, witness: a manual resample whose callback failed, on an entry whose *)
(* path holds a value pushed earlier.                                      *)
C5_Witness ==
    /\ call.op = "PushSample" /\ call.h # NULL_REF
    /\ call.result = LE_FAULT
    /\ \E i \in Idx : IsSampleCall(T[i]) /\ T[i].h = call.h /\ T[i].res = LE_FAULT
    /\ HubAt(hubVal, pool[call.h].info.path) # NoValue

(* C6: Register stores the data type and the sample callback of the        *)
(* declared payload kind; in every dispatch (registration, tick, manual    *)
(* resample) the one sample callback called is the entry's stored one,     *)
(* read as the member of its kind, and a successful sample is pushed with  *)
(* the push primitive of that kind and no other, carrying the value the    *)
(* callback produced: a numeric v is pushed as the numeric v.              *)
C6_DispatchByDeclaredKind ==
    /\ (call.op = "Register" /\ call.result = LE_OK) =>
          /\ IoKind(pool[call.h].info.type) = PrimOf(call.req.type)
          /\ pool[call.h].callbacks.sample = call.req.cb.sample
    /\ call.op \in SamplingOps =>
          \A i \in Idx : IsSampleCall(T[i]) =>
              LET e == T[i]
                  hp == pool[e.h]
                  kind == IoKind(hp.info.type)
              IN  /\ e.h = call.h
                  /\ kind \in {"Boolean", "Numeric", "String", "Json"}
                  /\ e.api = MemberOf(kind)
                  /\ e.fn = hp.callbacks.sample
                  /\ \A k \in Idx : IsSampleCall(T[k]) => k = i
                  /\ \A j \in Idx : IsPushAt(T[j], hp.info.path) =>
                        j > i /\ T[j].type = kind /\ T[j].val = e.val
                  /\ e.res = LE_OK =>
                        /\ e.val.kind = kind
                        /\ \E j \in Idx : IsPushAt(T[j], hp.info.path)
                        /\ HubAt(hubVal, hp.info.path) = e.val

(* C6, witness: a tick of a numeric sensor whose sample 42 is pushed as    *)
(* the numeric 42, and a boolean sensor registered.                        *)
C6_Witness ==
    /\ call.op = "Tick"
    /\ pool[call.h].info.type = IO_DATA_TYPE_NUMERIC
    /\ \E i, j \in Idx :
          /\ i < j
          /\ IsSampleCall(T[i]) /\ T[i].api = "numericCb" /\ T[i].val = NumV(42)
          /\ IsPushAt(T[j], pool[call.h].info.path)
          /\ T[j].type = "Numeric" /\ T[j].val = NumV(42)
    /\ HubAt(hubVal, pool[call.h].info.path) = NumV(42)
    /\ \E h \in Registered : pool[h].info.type = IO_DATA_TYPE_BOOLEAN

(* C7: for an entry whose descriptor has readOnce true, the one resource   *)
(* Register asks the Hub for is a plain input at the entry's path (created *)
(* or already there), no periodic sensor is created and the entry has no   *)
(* periodic handle; no periodic sensor ever has a read-once entry as the   *)
(* target of its tick, so no tick samples one; and a manual resample whose *)
(* sample callback succeeds pushes the value to the Hub at the entry's     *)
(* path and returns LE_OK.                                                 *)
C7_ReadOnceIsPlainInput ==
    /\ (/\ call.op = "Register" /\ call.result = LE_OK
        /\ call.req.doc.readOnce = JBoolean(TRUE)) =>
          LET info == pool[call.h].info
          IN  /\ info.isReadOnce
              /\ \E i \in Idx :
                    /\ T[i].ev = "create" /\ T[i].api = "input" /\ T[i].path = info.path
                    /\ T[i].res \in {LE_OK, LE_DUPLICATE}
                    /\ T[i].res = LE_OK => hubRes[info.path].dir = "input"
              /\ \A i \in Idx : T[i].ev = "create" => T[i].api = "input"
              /\ info.path \in DOMAIN hubRes
              /\ Len(psensors) = call.pre.psensors
              /\ info.sensorRef = NULL_REF
    /\ \A r \in 1..Len(psensors) : ~pool[psensors[r].context].info.isReadOnce
    /\ call.op = "Tick" => ~pool[call.h].info.isReadOnce
    /\ (call.op = "PushSample" /\ call.h # NULL_REF /\ pool[call.h].info.isReadOnce) =>
          \A i \in Idx : (IsSampleCall(T[i]) /\ T[i].res = LE_OK) =>
              /\ call.result = LE_OK
              /\ \E j \in Idx :
                    /\ j > i /\ IsPushAt(T[j], pool[call.h].info.path)
                    /\ T[j].api = "io" /\ T[j].val = T[i].val
              /\ HubAt(hubVal, pool[call.h].info.path) = T[i].val

(* C7, witness: a read-once entry resampled by hand, the second value in   *)
(* the Hub at its path, no periodic sensor anywhere.                       *)
C7_Witness ==
    /\ call.op = "PushSample" /\ call.h # NULL_REF
    /\ pool[call.h].info.isReadOnce
    /\ call.result = LE_OK
    /\ psensors = <<>>
    /\ \E i \in Idx : IsSampleCall(T[i]) /\ T[i].val = StrV("s2")
    /\ HubAt(hubVal, pool[call.h].info.path) = StrV("s2")

(* A registration of a sensor that is not read-once returned LE_OK. *)
PeriodicRegistered ==
    /\ call.op = "Register" /\ call.result = LE_OK
    /\ ~json_ConvertToBoolean(call.req.doc.readOnce.text)

(* C8: for an entry whose descriptor is not read-once, Register creates a  *)
(* periodic sensor at the entry's path with SampleSensor as its sampling   *)
(* function and the entry as its context, then pushes true to              *)
(* "<path>/enable", then the default of 60 seconds to "<path>/period", all *)
(* before it returns; the entry keeps the periodic sensor's reference.     *)
C8_PeriodicResourceEnabledAtDefault ==
    PeriodicRegistered =>
        LET info == pool[call.h].info
        IN  /\ ~info.isReadOnce
            /\ \E i, j, k \in Idx :
                  /\ i < j /\ j < k
                  /\ T[i].ev = "create" /\ T[i].api = "periodic"
                  /\ T[i].path = info.path /\ T[i].h = call.h /\ T[i].res = LE_OK
                  /\ IsPushAt(T[j], info.path \o "/enable") /\ T[j].val = BoolV(TRUE)
                  /\ T[j].type = "Boolean"
                  /\ IsPushAt(T[k], info.path \o "/period") /\ T[k].val = NumV(60)
                  /\ T[k].type = "Numeric"
            /\ \A i \in Idx : T[i].ev = "create" => T[i].api # "input"
            /\ Len(psensors) = call.pre.psensors + 1
            /\ info.sensorRef = Len(psensors)
            /\ psensors[info.sensorRef].name = info.path
            /\ psensors[info.sensorRef].sampleFunc = "SampleSensor"
            /\ psensors[info.sensorRef].context = call.h
            /\ info.path \in DOMAIN hubRes
            /\ HubAt(hubVal, info.path \o "/enable") = BoolV(TRUE)
            /\ HubAt(hubVal, info.path \o "/period") = NumV(DEFAULT_SAMPLING_PERIOD_SEC)

(* C8, witness: a periodic sensor registered after a first one, enabled    *)
(* with a period of 60.                                                    *)
C8_Witness ==
    /\ PeriodicRegistered
    /\ call.pre.count = 1
    /\ Len(psensors) = 2
    /\ psensors[2].context = call.h
    /\ HubAt(hubVal, pool[call.h].info.path \o "/period") = NumV(60)
    /\ HubAt(hubVal, pool[call.h].info.path \o "/enable") = BoolV(TRUE)

(* The registered entries that are periodic and have a config callback. *)
Configurable ==
    {h \in Registered : ~pool[h].info.isReadOnce /\ pool[h].callbacks.configCb # NULL}

(* C9: for a periodic entry registered with a config callback, once        *)
(* Register has returned the Hub holds the resource at <path> and the      *)
(* output at <path>/config (created by the call, or already there), with   *)
(* one push handler of the entry installed there; and each external push  *)
(* of a JSON document to <path>/config, whatever earlier config calls      *)
(* answered, makes exactly one call of the entry's config callback, with   *)
(* the pushed text, its length and the entry's stored plugin context.      *)
C9_ConfigPushCallsConfigCallbackOnce ==
    /\ (PeriodicRegistered /\ call.req.cb.configCb # NULL) =>
          /\ call.h \in Configurable
          /\ \E i \in Idx :
                /\ T[i].ev = "create" /\ T[i].api = "output"
                /\ T[i].path = pool[call.h].info.path \o "/config"
                /\ T[i].type = IO_DATA_TYPE_JSON /\ T[i].unit = ""
                /\ T[i].res \in {LE_OK, LE_DUPLICATE}
                /\ T[i].res = LE_OK => hubRes[T[i].path].dir = "output"
    /\ ~aborted =>
          \A h \in Configurable :
              LET cfg == pool[h].info.path \o "/config"
              IN  /\ pool[h].info.path \in DOMAIN hubRes
                  /\ cfg \in DOMAIN hubRes
                  /\ Cardinality({n \in 1..Len(pushHandlers) :
                                     pushHandlers[n].context = h}) = 1
                  /\ \E n \in 1..Len(pushHandlers) :
                        pushHandlers[n] = [path |-> cfg, fn |-> "ConfigUpdateHandler",
                                           context |-> h]
                  /\ (call.op = "ConfigPush" /\ call.path = cfg) =>
                        /\ Cardinality({i \in Idx : IsConfigCall(T[i]) /\ T[i].h = h}) = 1
                        /\ \A i \in Idx : (IsConfigCall(T[i]) /\ T[i].h = h) =>
                              /\ T[i].fn = pool[h].callbacks.configCb
                              /\ T[i].arg = call.arg
                              /\ T[i].len = Len(call.arg)
                              /\ T[i].ctx = pool[h].pluginContextPtr

(* C9, witness: an external push of {"x": 5} to "a/config" with two        *)
(* configurable entries in the registry, the config callback failing on    *)
(* the document.                                                           *)
C9_Witness ==
    /\ call.op = "ConfigPush" /\ call.path = "a/config" /\ call.arg = "{\"x\": 5}"
    /\ Cardinality(Configurable) = 2
    /\ \E i \in Idx :
          /\ IsConfigCall(T[i]) /\ T[i].arg = "{\"x\": 5}" /\ T[i].ctx = "chan1"
          /\ T[i].res = LE_FAULT
    /\ HubAt(hubVal, "a/config") = JsonV("{\"x\": 5}")

(* C10: in PushConfig, when the config callback returns success the        *)
(* document it returned is pushed as JSON to "<path>/config" of the entry  *)
(* and PushConfig returns LE_OK; when it returns a failure no push is made *)
(* to "<path>/config", the value the Hub holds there is the one it held    *)
(* before, and PushConfig returns LE_FAULT.                                *)
C10_PushConfigPushesOnSuccessOnly ==
    [][call'.op = "Register" =>
          \A i \in 1..Len(call'.trace) : IsConfigCall(call'.trace[i]) =>
              LET e == call'.trace[i]
                  cfg == pool'[e.h].info.path \o "/config"
                  Rest == {j \in 1..Len(call'.trace) : j > i}
              IN  /\ e.h = call'.h
                  /\ e.fn = call'.req.cb.configCb
                  /\ e.res = LE_OK =>
                        /\ \E j \in Rest :
                              /\ IsPushAt(call'.trace[j], cfg)
                              /\ call'.trace[j].type = "Json"
                              /\ call'.trace[j].val = e.val
                        /\ HubAt(hubVal', cfg) = e.val
                        /\ \E j \in Rest : call'.trace[j] = RetEv("PushConfig", e.h, LE_OK)
                  /\ e.res # LE_OK =>
                        /\ \A j \in 1..Len(call'.trace) : ~IsPushAt(call'.trace[j], cfg)
                        /\ HubAt(hubVal', cfg) = HubAt(hubVal, cfg)
                        /\ \E j \in Rest :
                              call'.trace[j] = RetEv("PushConfig", e.h, LE_FAULT)]_vars

(* C10, witness: a registration whose config read failed while the Hub     *)
(* holds a document at the entry's "<path>/config".                        *)
C10_Witness ==
    /\ call.op = "Register" /\ call.result = LE_OK
    /\ \E i \in Idx : IsConfigCall(T[i]) /\ T[i].res = LE_FAULT
    /\ HubAt(hubVal, pool[call.h].info.path \o "/config") = ConfigDoc(1)

(* C11, as stated: every successful Register call gives its caller a       *)
(* handle that identifies the newly created entry, and a manual resample   *)
(* on a handle samples exactly the entry of that handle.                   *)
C11_RegisterReturnsHandle ==
    /\ (call.op = "Register" /\ call.result = LE_OK) =>
          /\ call.out # NULL_REF
          /\ call.out = call.h
          /\ IsRegistered(pool[call.out])
    /\ (call.op = "PushSample" /\ call.h # NULL_REF) =>
          \A i \in Idx : T[i].ev \in {"call", "return"} => T[i].h = call.h

(* The Hub refused, during the last operation, to create a resource, with  *)
(* an answer other than "already exists".                                  *)
CreationRefused ==
    \E i \in Idx : T[i].ev = "create" /\ T[i].res \notin {LE_OK, LE_DUPLICATE}

(* C12, as stated: when the creation of an entry's Hub resource (input,    *)
(* periodic sensor or "<path>/config" output) fails with a result other    *)
(* than "already exists", Register returns a failure to its caller, and no *)
(* reachable state is a process abort.                                     *)
C12_CreationFailureReturnsFailure ==
    /\ ~aborted
    /\ (call.op = "Register" /\ CreationRefused) => call.result = LE_FAULT

(* C13: when the Hub answers "already exists" to the creation of an        *)
(* entry's input or of its "<path>/config" output, Register goes on as for *)
(* a fresh creation: after the input it samples, pushes a successful       *)
(* sample and counts the entry; after the output it reads the config,      *)
(* pushes it when read and installs the push handler; and it returns       *)
(* LE_OK.                                                                  *)
C13_DuplicateTreatedAsSuccess ==
    call.op = "Register" =>
        \A i \in Idx : (T[i].ev = "create" /\ T[i].res = LE_DUPLICATE) =>
            LET path == pool[call.h].info.path
                After == {j \in Idx : j > i}
            IN  /\ ~aborted
                /\ call.result = LE_OK
                /\ RegisteredSensorCount = call.pre.count + 1
                /\ IsRegistered(pool[call.h])
                /\ T[i].api = "input" =>
                      /\ T[i].path = path
                      /\ \E j \in After :
                            /\ IsSampleCall(T[j]) /\ T[j].h = call.h
                            /\ T[j].res = LE_OK =>
                                  \E k \in After : /\ k > j /\ IsPushAt(T[k], path)
                                                   /\ T[k].val = T[j].val
                /\ T[i].api = "output" =>
                      /\ T[i].path = path \o "/config"
                      /\ \E j, k \in After :
                            /\ j < k
                            /\ IsConfigCall(T[j]) /\ T[j].h = call.h
                            /\ T[j].res = LE_OK =>
                                  \E n \in After : /\ j < n /\ n < k
                                                   /\ IsPushAt(T[n], T[i].path)
                                                   /\ T[n].val = T[j].val
                            /\ T[k] = HandlerEv(T[i].path, "ConfigUpdateHandler", call.h)
                      /\ Len(pushHandlers) = call.pre.pushHandlers + 1
                /\ T[i].api \in {"input", "output"}

(* C13, witness: the second registration, answered "already exists" for   *)
(* its config output, that went on to push the config it read and to       *)
(* install its push handler.                                               *)
C13_Witness ==
    /\ call.op = "Register" /\ call.result = LE_OK
    /\ call.pre.count = 1
    /\ \E i, j \in Idx :
          /\ i < j
          /\ T[i].ev = "create" /\ T[i].api = "output" /\ T[i].res = LE_DUPLICATE
          /\ IsPushAt(T[j], T[i].path) /\ T[j].val = ConfigDoc(1)
    /\ \E n \in 1..Len(pushHandlers) : pushHandlers[n].context = call.h

(* C15, as stated: for each entry, at most one thread is executing a       *)
(* callback of that entry at any instant, even when the triggers arrive    *)
(* from different threads.                                                 *)
C15_OneCallbackPerEntry ==
    \A t1, t2 \in Threads :
        (t1 # t2 /\ running[t1] # AtRest) => running[t1].h # running[t2].h

(* C16, as stated: in every reachable state in which the process runs,     *)
(* RegisteredSensorCount equals the number of entries held in the sensor   *)
(* pool (the blocks of SensorHandlerPool in use), and no operation makes   *)
(* the count smaller than it was.                                          *)
C16_CountEqualsPoolEntries ==
    /\ ~aborted => RegisteredSensorCount = Len(pool)
    /\ RegisteredSensorCount >= call.pre.count

(* C17: the ids of the registered entries are pairwise distinct and        *)
(* increase in registration order: the k-th entry registered, counting     *)
(* from zero, has id k, whatever refused registrations came in between.    *)
C17_IdsSequential ==
    /\ \A h \in Registered :
          pool[h].info.sensorId = Cardinality({g \in Registered : g < h})
    /\ \A g, h \in Registered :
          g < h => pool[g].info.sensorId < pool[h].info.sensorId
    /\ (call.op = "Register" /\ call.result = LE_OK) =>
          pool[call.h].info.sensorId = call.pre.count

(* C17, witness: the second entry registered, with id 1. *)
C17_Witness ==
    /\ call.op = "Register" /\ call.result = LE_OK
    /\ Cardinality(Registered) = 2
    /\ pool[1].info.sensorId = 0
    /\ pool[2].info.sensorId = 1

(* C18, as stated: in every reachable state no two registered entries have *)
(* the same path, also after Register calls that repeat a path.            *)
C18_PathsPairwiseDistinct ==
    \A g, h \in Registered : g # h => pool[g].info.path # pool[h].info.path

(* The descriptor gives a name, a path and a unit that fit their fields. *)
GivenRequired(doc) ==
    /\ doc.wellFormed
    /\ doc.name.type # "absent" /\ Len(doc.name.text) < MAX_RESOURCE_NAME_LEN
    /\ doc.path.type # "absent" /\ Len(doc.path.text) < IO_MAX_RESOURCE_PATH_LEN
    /\ doc.unit.type # "absent" /\ Len(doc.unit.text) < IO_MAX_UNITS_NAME_LEN

(* The readOnce member is there and decodes to true. *)
DecodesTrue(member) == member.type # "absent" /\ member.text = "true"

(* C19: given name, path and unit, a descriptor without readOnce, or with  *)
(* one that does not decode as true, still parses, and the entry is        *)
(* periodic (isReadOnce false, a periodic sensor made for it); the entry   *)
(* is read-once only when readOnce decodes to true.                        *)
C19_ReadOnceDefaultsToPeriodic ==
    (/\ call.op = "Register" /\ call.result # "aborted"
     /\ GivenRequired(call.req.doc)
     /\ call.req.type \in sensorfwDataType_t) =>
        LET info == pool[call.h].info
        IN  /\ call.result = LE_OK
            /\ IsRegistered(pool[call.h])
            /\ info.isReadOnce = DecodesTrue(call.req.doc.readOnce)
            /\ ~DecodesTrue(call.req.doc.readOnce) =>
                  /\ info.sensorRef # NULL_REF
                  /\ Len(psensors) = call.pre.psensors + 1
                  /\ psensors[info.sensorRef].context = call.h
                  /\ \A i \in Idx : T[i].ev = "create" => T[i].api # "input"
            /\ DecodesTrue(call.req.doc.readOnce) =>
                  /\ info.sensorRef = NULL_REF
                  /\ Len(psensors) = call.pre.psensors

(* C19, witness: a sensor registered with readOnce "yes", made periodic,   *)
(* after one registered without readOnce.                                  *)
C19_Witness ==
    /\ call.op = "Register" /\ call.result = LE_OK
    /\ call.req.doc.readOnce = JString("yes")
    /\ ~pool[call.h].info.isReadOnce
    /\ Len(psensors) = 2
    /\ psensors[2].context = call.h

(* A member of the descriptor is there and does not fit a field of size    *)
(* bytes, terminator included.                                             *)
TooLong(member, size) == member.type # "absent" /\ Len(member.text) >= size

Overlong(doc) ==
    \/ TooLong(doc.name, MAX_RESOURCE_NAME_LEN)
    \/ TooLong(doc.path, IO_MAX_RESOURCE_PATH_LEN)
    \/ TooLong(doc.unit, IO_MAX_UNITS_NAME_LEN)

(* C20: when the name, path or unit of a descriptor is longer than the     *)
(* field that stores it (the name: 20 bytes with its terminator), Register *)
(* fails and creates no entry, no resource and calls nothing; and every    *)
(* registered entry holds whole fields: the entry a Register call made     *)
(* holds the descriptor's name, path and unit as given.                    *)
C20_OverlongFieldRefused ==
    /\ (call.op = "Register" /\ Overlong(call.req.doc)) =>
          /\ call.result = LE_FAULT
          /\ Len(pool) = call.pre.blocks
          /\ RegisteredSensorCount = call.pre.count
          /\ \A i \in Idx : T[i].ev \notin {"create", "push", "call", "addHandler"}
    /\ (call.op = "Register" /\ call.result = LE_OK) =>
          /\ pool[call.h].info.name = call.req.doc.name.text
          /\ pool[call.h].info.path = call.req.doc.path.text
          /\ pool[call.h].info.unit = call.req.doc.unit.text
    /\ \A h \in Registered :
          /\ Len(pool[h].info.name) < 20
          /\ Len(pool[h].info.path) < IO_MAX_RESOURCE_PATH_LEN
          /\ Len(pool[h].info.unit) < IO_MAX_UNITS_NAME_LEN

(* C20, witness: a descriptor with a name of 20 characters refused, the    *)
(* one entry registered before left alone.                                 *)
C20_Witness ==
    /\ call.op = "Register" /\ call.result = LE_FAULT
    /\ Len(call.req.doc.name.text) = 20
    /\ call.pre.count = 1 /\ RegisteredSensorCount = 1
    /\ Len(pool) = 1

C22_OneSampleCallPerRegister ==
    (call.op = "Register" /\ call.result = LE_OK) =>
        /\ Cardinality({i \in Idx : IsSampleCall(T[i])}) = 1
        /\ \A i \in Idx : IsSampleCall(T[i]) =>
              /\ T[i].h = call.h
              /\ T[i].fn = call.req.cb.sample
              /\ T[i].ctx = call.req.ctx
              /\ \E j \in Idx : j > i /\ T[j] = RetEv("PushData", call.h, T[j].res)

(* C22, witness: a registration with a config callback whose first sample  *)
(* failed: one sample call, one config call, LE_OK returned.               *)
C22_Witness ==
    /\ call.op = "Register" /\ call.result = LE_OK
    /\ \E i, j \in Idx :
          /\ i < j
          /\ IsSampleCall(T[i]) /\ T[i].res = LE_FAULT
          /\ IsConfigCall(T[j])
    /\ Cardinality({i \in Idx : IsSampleCall(T[i])}) = 1

(* The entry's own resource is created: an input or a periodic sensor. *)
IsResourceCreate(e) == e.ev = "create" /\ e.api \in {"input", "periodic"}

(* C23, as stated: within one Register call the first sample (and the      *)
(* first config push) come before the entry is wired into the Hub: the     *)
(* sample callback is called, and its sample pushed, before the entry's    *)
(* Hub resource is created.                                                *)
C23_SampleBeforeResource ==
    (call.op = "Register" /\ call.result = LE_OK) =>
        \A c, s \in Idx : (IsResourceCreate(T[c]) /\ IsSampleCall(T[s])) => s < c

(* C23: within one successful Register call the block is allocated, then   *)
(* the entry's Hub resource is created (periodic sensor or input), then    *)
(* the sample callback is called and its sample pushed, and then, for a    *)
(* periodic entry with a config callback, the "<path>/config" output is    *)
(* created, the config callback called and the push handler installed,     *)
(* last of all; no push of the call precedes the creation of the resource. *)
C23_ResourceBeforeFirstSample ==
    (call.op = "Register" /\ call.result = LE_OK) =>
        \E a, c, s \in Idx :
            /\ a < c /\ c < s
            /\ T[a] = AllocEv(call.h)
            /\ IsResourceCreate(T[c]) /\ T[c].path = pool[call.h].info.path
            /\ IsSampleCall(T[s]) /\ T[s].h = call.h
            /\ \A i \in Idx : T[i].ev = "push" => i > c
            /\ \A i \in Idx : IsPushAt(T[i], pool[call.h].info.path) => i > s
            /\ HasConfigBridge(call.req) =>
                  \E o, g \in Idx :
                      /\ s < o /\ o < g /\ g < Len(T)
                      /\ T[o].ev = "create" /\ T[o].api = "output"
                      /\ IsConfigCall(T[g])
                      /\ T[Len(T)].ev = "addHandler"
                      /\ \A i \in Idx : IsPushAt(T[i], pool[call.h].info.path) => i < o
                      /\ \A i \in Idx : IsPushAt(T[i], T[o].path) => i > g
            /\ ~HasConfigBridge(call.req) =>
                  \A i \in Idx : T[i].ev # "addHandler" /\ ~IsConfigCall(T[i])

(* C23, witness: a periodic entry with a config callback registered as the *)
(* second entry, its sample and its configuration both pushed.             *)
C23_Witness ==
    /\ call.op = "Register" /\ call.result = LE_OK
    /\ call.pre.count = 1
    /\ HasConfigBridge(call.req)
    /\ \E c, s, p, o, q \in Idx :
          /\ c < s /\ s < p /\ p < o /\ o < q
          /\ IsResourceCreate(T[c]) /\ T[c].api = "periodic"
          /\ IsSampleCall(T[s])
          /\ IsPushAt(T[p], pool[call.h].info.path)
          /\ T[o].ev = "create" /\ T[o].api = "output"
          /\ IsPushAt(T[q], T[o].path)

(* C24: in the successful Register of a periodic entry with a config       *)
(* callback the output at "<path>/config" is created, then PushConfig runs *)
(* (one call of the config callback, then its return), then the push       *)
(* handler is installed at "<path>/config" with the entry as context; the  *)
(* call installs exactly one handler, whether the config read succeeded or *)
(* failed.                                                                 *)
C24_ConfigStepsInOrder ==
    (call.op = "Register" /\ call.result = LE_OK /\ HasConfigBridge(call.req)) =>
        LET cfg == pool[call.h].info.path \o "/config"
        IN  /\ \E o, g, r, d \in Idx :
                  /\ o < g /\ g < r /\ r < d
                  /\ T[o] = CreateEv("output", call.h, cfg, IO_DATA_TYPE_JSON, "", T[o].res)
                  /\ IsConfigCall(T[g]) /\ T[g].h = call.h
                  /\ T[r] = RetEv("PushConfig", call.h,
                                  IF T[g].res = LE_OK THEN LE_OK ELSE LE_FAULT)
                  /\ T[d] = HandlerEv(cfg, "ConfigUpdateHandler", call.h)
            /\ Cardinality({i \in Idx : T[i].ev = "addHandler"}) = 1
            /\ Cardinality({i \in Idx : IsConfigCall(T[i])}) = 1
            /\ Len(pushHandlers) = call.pre.pushHandlers + 1
            /\ pushHandlers[Len(pushHandlers)] =
                  [path |-> cfg, fn |-> "ConfigUpdateHandler", context |-> call.h]

(* C24, witness: the initial config read failed, nothing is held at        *)
(* "<path>/config", and the handler is installed all the same.             *)
C24_Witness ==
    /\ call.op = "Register" /\ call.result = LE_OK
    /\ \E g \in Idx : IsConfigCall(T[g]) /\ T[g].res = LE_FAULT
    /\ T[Len(T)].ev = "addHandler"
    /\ HubAt(hubVal, T[Len(T)].path) = NoValue
    /\ Len(pushHandlers) = 1

(* C25: a successful Register creates the "<path>/config" output, runs the *)
(* initial config push (PushConfig: one call of the config callback, and a *)
(* push when it succeeded) and installs a push handler exactly when the    *)
(* entry is not read-once and was registered with a config callback; every *)
(* push handler belongs to such an entry and every such entry has one; and *)
(* no operation calls the config callback of a read-once entry or of an    *)
(* entry without one.                                                      *)
C25_ConfigBridgeOnlyWhenConfigurable ==
    /\ (call.op = "Register" /\ call.result = LE_OK) =>
          LET configurable ==
                  ~pool[call.h].info.isReadOnce /\ call.req.cb.configCb # NULL
              cfg == pool[call.h].info.path \o "/config"
          IN  /\ (\E i \in Idx : T[i].ev = "create" /\ T[i].api = "output") <=> configurable
              /\ (\E i \in Idx : IsConfigCall(T[i])) <=> configurable
              /\ (\E i \in Idx : T[i].ev = "addHandler") <=> configurable
              /\ (\E i \in Idx : IsPushAt(T[i], cfg)) <=>
                    (configurable /\ \E i \in Idx : IsConfigCall(T[i]) /\ T[i].res = LE_OK)
              /\ configurable <=> call.h \in Configurable
    /\ \A n \in 1..Len(pushHandlers) : pushHandlers[n].context \in Configurable
    /\ ~aborted =>
          \A h \in Configurable : \E n \in 1..Len(pushHandlers) : pushHandlers[n].context = h
    /\ \A i \in Idx : IsConfigCall(T[i]) =>
          /\ ~pool[T[i].h].info.isReadOnce
          /\ pool[T[i].h].callbacks.configCb # NULL
          /\ T[i].fn = pool[T[i].h].callbacks.configCb

(* C25, witness: a read-once sensor registered with a config callback,     *)
(* after a configurable one: no output, no config call, no second handler. *)
C25_Witness ==
    /\ call.op = "Register" /\ call.result = LE_OK
    /\ call.req.cb.configCb = "ConfigOnce"
    /\ pool[call.h].info.isReadOnce
    /\ \A i \in Idx : ~IsConfigCall(T[i]) /\ T[i].ev # "addHandler"
    /\ Len(pushHandlers) = 1
    /\ Cardinality(Configurable) = 1
    /\ Cardinality(Registered) = 2

(* C26: the handling of an external config update makes no push: the       *)
(* events of the handlers run for a document pushed to "<path>/config"     *)
(* hold calls of config callbacks and no push, and afterwards the Hub      *)
(* holds what it held before at every path, and the pushed document at     *)
(* "<path>/config", whether the callbacks succeeded or failed.             *)
C26_ConfigUpdateMakesNoPush ==
    [][call'.op = "ConfigPush" =>
          /\ \A i \in 1..Len(call'.trace) :
                /\ call'.trace[i].ev # "push"
                /\ IsConfigCall(call'.trace[i])
          /\ \E i \in 1..Len(call'.trace) :
                /\ IsConfigCall(call'.trace[i])
                /\ call'.trace[i].arg = call'.arg
          /\ hubVal' = Put(hubVal, call'.path, JsonV(call'.arg))
          /\ hubRes' = hubRes]_vars

(* C26, witness: the config callback took the document {"rate":2} and      *)
(* returned LE_OK; the sample the Hub holds at the path is still there.    *)
C26_Witness ==
    /\ call.op = "ConfigPush" /\ call.arg = "{\"rate\":2}"
    /\ \A i \in Idx : IsConfigCall(T[i]) /\ T[i].res = LE_OK
    /\ Len(T) = 2
    /\ HubAt(hubVal, call.path) = JsonV(call.arg)
    /\ HubAt(hubVal, "a") = NumV(42)

(* C27, as stated: when the config read of a configurable periodic entry   *)
(* failed at registration, the sample tick of that entry attempts the      *)
(* config read again: a tick of a configurable entry that ends with no     *)
(* document held at "<path>/config" has called the entry's config callback. *)
C27_TickRetriesConfigRead ==
    (/\ call.op = "Tick"
     /\ call.h \in Configurable
     /\ HubAt(hubVal, pool[call.h].info.path \o "/config") = NoValue) =>
        \E i \in Idx : IsConfigCall(T[i]) /\ T[i].h = call.h

(* C28, as stated: after every successful external edit (the config        *)
(* callback returned LE_OK for the document pushed to "<path>/config") the *)
(* document the Hub holds at "<path>/config" is the configuration of the   *)
(* hardware as the plugin reports it.                                      *)
C28_HubConfigAgreesWithHardware ==
    call.op = "ConfigPush" =>
        \A i \in Idx : (IsConfigCall(T[i]) /\ T[i].res = LE_OK) =>
            HubAt(hubVal, call.path) = ConfigDoc(iioAttrs[T[i].ctx])

(* C29, as stated: the config callback is handed a non-empty incoming      *)
(* configuration only in the handling of an external config update; in the *)
(* registration-time config read (PushConfig) the text it is handed is     *)
(* empty.                                                                  *)
C29_RegistrationReadHasEmptyArgument ==
    \A i \in Idx : (IsConfigCall(T[i]) /\ T[i].arg # "") =>
        /\ call.op = "ConfigPush"
        /\ T[i].arg = call.arg

(* C30: every tick of a periodic entry makes exactly one call of the       *)
(* entry's sample callback, whatever the Hub holds from earlier samples    *)
(* and config calls; no outcome disables a periodic sensor, so that, with  *)
(* the timers running, every periodic sensor of a process that is not      *)
(* terminated is sampled by a tick infinitely often.                       *)
C30_TicksSampleForever ==
    /\ [](call.op = "Tick" =>
            /\ Cardinality({i \in Idx : IsSampleCall(T[i])}) = 1
            /\ \A i \in Idx : IsSampleCall(T[i]) =>
                  /\ T[i].h = call.h
                  /\ T[i].fn = pool[call.h].callbacks.sample
                  /\ ~pool[call.h].info.isReadOnce)
    /\ [](~aborted => \A ref \in 1..Len(psensors) : IsEnabled(ref))
    /\ \A ref \in 1..MaxBlocks :
          []<>(\/ aborted
               \/ Len(psensors) < ref
               \/ call.op = "Tick" /\ call.h = psensors[ref].context)

(* C30, witness: a tick of a configurable entry whose sample fails, after  *)
(* the sample and the config read at registration and every sample since   *)
(* failed (the Hub holds no value at the path nor at "<path>/config"); the *)
(* sensor is still enabled.                                                *)
C30_Witness ==
    /\ call.op = "Tick" /\ call.h \in Configurable
    /\ \E i \in Idx : IsSampleCall(T[i]) /\ T[i].res = LE_FAULT
    /\ HubAt(hubVal, pool[call.h].info.path) = NoValue
    /\ HubAt(hubVal, pool[call.h].info.path \o "/config") = NoValue
    /\ IsEnabled(pool[call.h].info.sensorRef)
    /\ ~aborted

(* C31: every registered entry has a periodic sensor reference (sensorRef   *)
(* not NULL: the periodic sensor made for it, at its path) exactly when it  *)
(* is not read-once; and the samples of a periodic entry are pushed through *)
(* psensor_Push on that reference, those of a read-once entry through       *)
(* io_Push at the entry's own path (in every state of a process that no     *)
(* LE_ASSERT has terminated).                                               *)
C31_PeriodicHandleIffNotReadOnce ==
    ~aborted =>
    /\ \A h \in Registered :
          LET info == pool[h].info
          IN  /\ (info.sensorRef # NULL_REF) <=> ~info.isReadOnce
              /\ ~info.isReadOnce =>
                    /\ info.sensorRef \in 1..Len(psensors)
                    /\ psensors[info.sensorRef].context = h
                    /\ psensors[info.sensorRef].name = info.path
    /\ (call.op \in SamplingOps /\ call.h \in Registered) =>
          LET info == pool[call.h].info
          IN  /\ \A i \in Idx : IsPushAt(T[i], info.path) =>
                    T[i].api = (IF info.isReadOnce THEN "io" ELSE "psensor")
              /\ \A i \in Idx : (T[i].ev = "push" /\ T[i].api = "psensor") =>
                    /\ ~info.isReadOnce
                    /\ T[i].path = psensors[info.sensorRef].name
              /\ \A i \in Idx : (IsSampleCall(T[i]) /\ T[i].res = LE_OK) =>
                    \E j \in Idx : j > i /\ IsPushAt(T[j], info.path)

(* C31, witness: a manual sample of a read-once entry pushed with io_Push, *)
(* in a registry that also holds a periodic entry.                         *)
C31_Witness ==
    /\ call.op = "PushSample" /\ call.h \in Registered
    /\ pool[call.h].info.isReadOnce
    /\ pool[call.h].info.sensorRef = NULL_REF
    /\ \E i \in Idx : IsPushAt(T[i], pool[call.h].info.path) /\ T[i].api = "io"
    /\ \E g \in Registered : pool[g].info.sensorRef = 1

(* C32: no step changes the block of an entry that was registered before   *)
(* it (descriptor fields, type, callbacks, plugin context, periodic sensor *)
(* reference), whichever operation it is and whichever entry it is about;  *)
(* and every callback call of the step is handed the plugin context stored *)
(* in its entry, the one given at registration.                            *)
C32_EntriesNeverChange ==
    [][/\ \A h \in Registered :
             /\ h \in 1..Len(pool')
             /\ pool'[h] = pool[h]
       /\ \A i \in 1..Len(call'.trace) :
             call'.trace[i].ev = "call" =>
                 /\ call'.trace[i].h \in 1..Len(pool')
                 /\ call'.trace[i].ctx = pool'[call'.trace[i].h].pluginContextPtr
       /\ (call'.op = "Register" /\ call'.result = LE_OK) =>
             pool'[call'.h].pluginContextPtr = call'.req.ctx]_vars

(* C32, witness: a tick of the second of two entries, its callback handed  *)
(* the context "chan2" of its registration; the first entry has another.   *)
C32_Witness ==
    /\ call.op = "Tick" /\ call.h = 2
    /\ Registered = {1, 2}
    /\ pool[1].pluginContextPtr = "chan1"
    /\ \E i \in Idx : IsSampleCall(T[i]) /\ T[i].ctx = "chan2"
    /\ pool[2].pluginContextPtr = "chan2"

(* C33: a Register call whose descriptor parses, whose callback type is of *)
(* the enumeration and whose Hub creations are all accepted returns LE_OK, *)
(* keeps the new block as a registered entry and increments the count,     *)
(* whatever the first sample callback and the first config callback        *)
(* returned; a callback that failed had nothing pushed for it.             *)
C33_RegisterIgnoresCallbackFailure ==
    (/\ call.op = "Register"
     /\ Parses(call.req.doc)
     /\ call.req.type \in sensorfwDataType_t
     /\ ~CreationRefused) =>
        /\ call.result = LE_OK
        /\ ~aborted
        /\ Len(pool) = call.pre.blocks + 1
        /\ call.h \in Registered
        /\ RegisteredSensorCount = call.pre.count + 1
        /\ \A i \in Idx : (IsSampleCall(T[i]) /\ T[i].res # LE_OK) =>
              \A j \in Idx : ~IsPushAt(T[j], pool[call.h].info.path)
        /\ \A i \in Idx : (IsConfigCall(T[i]) /\ T[i].res # LE_OK) =>
              \A j \in Idx : ~IsPushAt(T[j], pool[call.h].info.path \o "/config")

(* C33, witness: the first sample and the first config read both failed;   *)
(* the entry is registered and counted and the Hub holds no value for it.  *)
C33_Witness ==
    /\ call.op = "Register" /\ call.result = LE_OK
    /\ \E i, j \in Idx :
          /\ IsSampleCall(T[i]) /\ T[i].res = LE_FAULT
          /\ IsConfigCall(T[j]) /\ T[j].res = LE_FAULT
    /\ RegisteredSensorCount = 1 /\ Registered = {1}
    /\ HubAt(hubVal, pool[1].info.path) = NoValue
    /\ HubAt(hubVal, pool[1].info.path \o "/config") = NoValue

(* C34: sensorFw_PushSample on a registered entry calls the entry's sample *)
(* callback once and returns LE_OK exactly when that call returned LE_OK,  *)
(* having then made exactly one push, of the sample, for the entry's path; *)
(* otherwise it returns LE_FAULT and pushes nothing.  On a NULL handler it *)
(* returns LE_FAULT with no callback called and nothing pushed.            *)
C34_PushSampleResult ==
    call.op = "PushSample" =>
        IF call.h = NULL_REF
        THEN call.result = LE_FAULT /\ T = <<>>
        ELSE /\ call.h \in Registered
             /\ Cardinality({i \in Idx : IsSampleCall(T[i])}) = 1
             /\ \A i \in Idx : IsSampleCall(T[i]) =>
                   /\ T[i].h = call.h
                   /\ (call.result = LE_OK) <=> (T[i].res = LE_OK)
                   /\ T[i].res = LE_OK =>
                         \E j \in Idx :
                             /\ j > i
                             /\ IsPushAt(T[j], pool[call.h].info.path)
                             /\ T[j].val = T[i].val
             /\ call.result \in {LE_OK, LE_FAULT}
             /\ Cardinality({i \in Idx : T[i].ev = "push"}) =
                   (IF call.result = LE_OK THEN 1 ELSE 0)

(* C34, witness: a manual sample of a periodic entry that succeeds, the    *)
(* value 43 pushed once; and the registry holds a second entry.            *)
C34_Witness ==
    /\ call.op = "PushSample" /\ call.result = LE_OK
    /\ ~pool[call.h].info.isReadOnce
    /\ \E j \in Idx : T[j].ev = "push" /\ T[j].val = NumV(43)
    /\ HubAt(hubVal, pool[call.h].info.path).n = 43
    /\ Cardinality(Registered) = 2

(* The texts the config callback is handed: the documents pushed to         *)
(* "<path>/config" and what PushConfig's buffer may hold.                   *)
IncomingTexts == ConfigInputs \cup {"", "stale", "{\"rate\":1}"}

C36_DmRegistersEveryRow ==
    /\ dmIndex < DmRowsFollowed => ~aborted
    /\ dmIndex > 0 =>
          /\ call.op = "Register"
          /\ call.req = DmRequest(dmIndex)
          /\ call.req.cb.configCb = NULL
    /\ Len(pool) = dmIndex
    /\ \A h \in Registered :
          pool[h].info.path = DmHandlers[h].path /\ pool[h].callbacks.configCb = NULL
    /\ \A i \in 1..Len(DmHandlers) : DmHandlers[i].config = NULL
    /\ \A i \in Idx : T[i].ev \notin {"addHandler"} /\ ~IsConfigCall(T[i])
                       /\ ~(T[i].ev = "create" /\ T[i].api = "output")
    /\ pushHandlers = <<>>

====
